---- MODULE Spec2Model ----
(***************************************************************************)
(* Model of go-githubapp's webhook dispatch and scheduling core.           *)
(*                                                                         *)
(*   - the HTTP dispatch front: NewEventDispatcher and                     *)
(*     eventDispatcher.ServeHTTP (githubapp/dispatcher.go);                *)
(*   - the schedulers: defaultScheduler, asyncScheduler, queueScheduler    *)
(*     and the shared scheduler.safeExecute (scheduler source, part_000).  *)
(*                                                                         *)
(* Two specifications share the module: SpecDispatcher drives requests     *)
(* through ServeHTTP; Spec drives Schedule calls, worker goroutines and    *)
(* handler executions of one scheduler instance.                           *)
(***************************************************************************)
EXTENDS Integers, Sequences, FiniteSets, TLC

\* ------------------------------------------------------------------------
\* Bounds
\* ------------------------------------------------------------------------
MaxHandlers == 2

MaxRequests == 2

MaxDispatches == 3

MaxWorkers == 2

MaxQueueSize == 2

\* request contexts cancelled while their dispatch is pending or running
\* the number of deliveries one dispatcher serves in a row
MaxReplays == 3

MaxCancels == 1

\* the longest list of options given to a scheduler's constructor
MaxOpts == 3

\* the largest capacity of the cache of installations
MaxCapacity == 2

\* the number of handler executions that call SetResponder
MaxSetCalls == 1

\* the longest list of paths given to NewLoader
MaxPaths == 2

\* ------------------------------------------------------------------------
\* Dispatcher: values
\* ------------------------------------------------------------------------
PingEvent == "ping"

EventTypes == {"ping", "pull_request", "issue_comment"}

\* X-GitHub-Event header values; "" is the absent header
EventHeaders == EventTypes \cup {""}

Secrets == {1, 2}

Payloads == {1, 2}

StatusOK == 200

StatusAccepted == 202

StatusBadRequest == 400

StatusInternalServerError == 500

StatusConflict == 409

NoBody == ""

BadSignatureBody == "invalid webhook or bad signature\n"

InternalErrorBody == "Internal Server Error\n"

CustomErrorBody == "Already processed this pull request!\n"

NoErr == "nil"

HandlerErr == "handler failure"

\* The signature header: an HMAC over the raw body keyed by a secret.  The
\* MAC is kept symbolic: it is determined by, and determines, the pair.
Sign(payload, sec) == [secret |-> sec, payload |-> payload]

NoSignature == [secret |-> 0, payload |-> 0]

Signatures == {Sign(p, s) : p \in Payloads, s \in Secrets} \cup {NoSignature}

Requests == [event : EventHeaders, payload : Payloads, sig : Signatures]

\* What a handler's Handle returns: (status, respbody, err)
HandlerResults == [status : {0, 200, 201}, respbody : {NoBody, "body"}, err : {NoErr, HandlerErr}]

\* the event types that the handlers of the model declare; "issue_comment"
\* stays an event type nobody handles
DeclaredTypes == {"ping", "pull_request"}

\* A handler is represented by what Handles() returns
HandlerLists == UNION {[1..n -> SUBSET DeclaredTypes] : n \in 0..MaxHandlers}

\* the result of a handler that returns (0, nil, nil)
NilResult == [status |-> 0, respbody |-> NoBody, err |-> NoErr]

ErrorHandlers == {"nil", "custom"}

VARIABLES handlers, secret, onError, handlerMap, Count, served, lastReq, lastResp, lastCalls, lastErrCalls,
          lastTrace

\* lastTrace records of the last request: the handler's result, the event
\* type given to each Handle call, the error given to onError and the
\* writers of the response in order
NoTrace == [hres |-> [status |-> 0, respbody |-> "", err |-> "nil"], callEvents |-> <<>>,
            errArg |-> "nil", writers |-> <<>>]

\* The first request a dispatcher served, kept to compare later ones with:
\* the request, the handler's result, the handlers called and the response
VARIABLES firstServed

rvars == <<firstServed>>

dvars == <<handlers, secret, onError, handlerMap, Count, served, lastReq, lastResp, lastCalls, lastErrCalls,
           lastTrace>>

\* ------------------------------------------------------------------------
\* Dispatcher: NewEventDispatcher
\* ------------------------------------------------------------------------
RECURSIVE BuildForward(_, _, _)
BuildForward(hs, i, m) ==
    IF i > Len(hs) THEN m
    ELSE BuildForward(hs, i + 1, [e \in EventTypes |-> IF e \in hs[i] THEN i ELSE m[e]])

\* handlers registered in list order, so that the last entry declaring an
\* event owns it
BuildHandlerMapLastWins(hs, i, m) == BuildForward(hs, 1, m)

\* the first handler of the list registered under every event type
BuildHandlerMapCatchAll(hs, i, m) == [e \in EventTypes |-> IF Len(hs) > 0 THEN 1 ELSE m[e]]

\* for i := len(handlers) - 1; i >= 0; i-- { for event in Handles() { handlerMap[event] = handlers[i] } }
\* 0 stands for "no entry" (the lookup's ok is false)
RECURSIVE BuildHandlerMap(_, _, _)
BuildHandlerMap(hs, i, m) ==
    IF i = 0 THEN m
    ELSE BuildHandlerMap(hs, i - 1, [e \in EventTypes |-> IF e \in hs[i] THEN i ELSE m[e]])

DefaultOnError(h) == IF h = "nil" THEN "default" ELSE h

NewEventDispatcher(hs, sec, eh) ==
    [handlerMap |-> BuildHandlerMap(hs, Len(hs), [e \in EventTypes |-> 0]),
     secret |-> sec,
     onError |-> DefaultOnError(eh)]

\* ------------------------------------------------------------------------
\* Dispatcher: ServeHTTP
\* ------------------------------------------------------------------------
\* a validation that lets an unsigned payload through
ValidatePayloadUnsignedOk(r, sec) == r.sig = NoSignature \/ r.sig = Sign(r.payload, sec)

\* github.ValidatePayload(r, secret): err == nil iff the signature header is
\* present and is the MAC of the request body under the secret
ValidatePayload(r, sec) == r.sig # NoSignature /\ r.sig = Sign(r.payload, sec)

\* http.Error(w, msg, code)
HttpError(msg, code) == [status |-> code, body |-> msg]

DefaultErrorHandler == HttpError(InternalErrorBody, StatusInternalServerError)

CustomErrorHandler == HttpError(CustomErrorBody, StatusConflict)

CallOnError(eh) == IF eh = "default" THEN DefaultErrorHandler ELSE CustomErrorHandler

\* a response written by the dispatcher itself, with no handler involved
Written(status, body) ==
    [status |-> status, body |-> body, calls |-> <<>>, errCalls |-> 0,
     callEvents |-> <<>>, errArg |-> NoErr, writers |-> <<"dispatcher">>]

\* an error branch that writes the handler's status and body before it
\* calls the error callback
HandlerFailedWritesFirst(d, r, hres) ==
    [status |-> IF hres.status = 0 THEN CallOnError(d.onError).status ELSE hres.status,
     body |-> IF hres.respbody = NoBody THEN CallOnError(d.onError).body ELSE hres.respbody,
     calls |-> <<d.handlerMap[r.event]>>, errCalls |-> 1,
     callEvents |-> <<r.event>>, errArg |-> hres.err,
     writers |-> IF hres.status = 0 /\ hres.respbody = NoBody THEN <<"onError">>
                 ELSE <<"dispatcher", "onError">>]

\* if err != nil { d.onError(w, r, err); return }
HandlerFailed(d, r, hres) ==
    [status |-> CallOnError(d.onError).status, body |-> CallOnError(d.onError).body,
     calls |-> <<d.handlerMap[r.event]>>, errCalls |-> 1,
     callEvents |-> <<r.event>>, errArg |-> hres.err, writers |-> <<"onError">>]

\* a handler whose declared status is dropped in favour of 200
HandlerSucceededAlwaysOK(d, r, hres) ==
    [status |-> StatusOK, body |-> hres.respbody,
     calls |-> <<d.handlerMap[r.event]>>, errCalls |-> 0,
     callEvents |-> <<r.event>>, errArg |-> NoErr, writers |-> <<"dispatcher">>]

\* if status == 0 { status = http.StatusOK }; w.WriteHeader(status);
\* if len(respbody) != 0 { w.Write(respbody) }
HandlerSucceeded(d, r, hres) ==
    [status |-> IF hres.status = 0 THEN StatusOK ELSE hres.status, body |-> hres.respbody,
     calls |-> <<d.handlerMap[r.event]>>, errCalls |-> 0,
     callEvents |-> <<r.event>>, errArg |-> NoErr, writers |-> <<"dispatcher">>]

\* an error branch without its return: the dispatcher goes on to write the
\* handler's status after the error callback has written its own
AfterHandleNoReturn(d, r, hres) ==
    IF hres.err # NoErr
    THEN [HandlerFailed(d, r, hres) EXCEPT !.writers = <<"onError", "dispatcher">>]
    ELSE HandlerSucceeded(d, r, hres)

\* status, respbody, err := handler.Handle(ctx, eventType, deliveryID, payloadBytes, w)
\* and what the dispatcher does with the three results
AfterHandle(d, r, hres) ==
    IF hres.err # NoErr THEN HandlerFailed(d, r, hres) ELSE HandlerSucceeded(d, r, hres)

\* a dispatcher that remembers it has served a delivery and acknowledges
\* every later one without routing it
ServeHTTPResultOnce(d, r, hres) ==
    IF served > 0 THEN Written(StatusAccepted, NoBody)
    ELSE IF r.event = "" THEN Written(StatusAccepted, NoBody)
    ELSE IF ~ValidatePayload(r, d.secret) THEN Written(StatusBadRequest, BadSignatureBody)
    ELSE IF d.handlerMap[r.event] # 0 THEN AfterHandle(d, r, hres)
    ELSE IF r.event = PingEvent THEN Written(StatusOK, NoBody)
    ELSE Written(StatusAccepted, NoBody)

\* ping answered before the registry is consulted
ServeHTTPResultPingFirst(d, r, hres) ==
    IF r.event = ""
    THEN Written(StatusAccepted, NoBody)
    ELSE IF ~ValidatePayload(r, d.secret)
    THEN Written(StatusBadRequest, BadSignatureBody)
    ELSE IF r.event = PingEvent
    THEN Written(StatusOK, NoBody)
    ELSE IF d.handlerMap[r.event] # 0
    THEN AfterHandle(d, r, hres)
    ELSE Written(StatusAccepted, NoBody)

\* the signature checked before the event type header is looked at
ServeHTTPResultValidateFirst(d, r, hres) ==
    IF ~ValidatePayload(r, d.secret)
    THEN Written(StatusBadRequest, BadSignatureBody)
    ELSE IF r.event = ""
    THEN Written(StatusAccepted, NoBody)
    ELSE IF d.handlerMap[r.event] # 0
    THEN AfterHandle(d, r, hres)
    ELSE IF r.event = PingEvent
    THEN Written(StatusOK, NoBody)
    ELSE Written(StatusAccepted, NoBody)

\* an event nobody handles acknowledged with 200
ServeHTTPResultUnhandledOK(d, r, hres) ==
    IF r.event = ""
    THEN Written(StatusAccepted, NoBody)
    ELSE IF ~ValidatePayload(r, d.secret)
    THEN Written(StatusBadRequest, BadSignatureBody)
    ELSE IF d.handlerMap[r.event] # 0
    THEN AfterHandle(d, r, hres)
    ELSE Written(StatusOK, NoBody)

\* The outcome of one ServeHTTP call: the response written and who wrote
\* it, the handlers whose Handle was called (in order) with the event type
\* each was given, the number of onError calls and the error passed.
\* hres is what the handler returns if it is called.
ServeHTTPResult(d, r, hres) ==
    IF r.event = ""
    THEN Written(StatusAccepted, NoBody)
    ELSE IF ~ValidatePayload(r, d.secret)
    THEN Written(StatusBadRequest, BadSignatureBody)
    ELSE IF d.handlerMap[r.event] # 0
    THEN AfterHandle(d, r, hres)
    ELSE IF r.event = PingEvent
    THEN Written(StatusOK, NoBody)
    ELSE Written(StatusAccepted, NoBody)

Dispatcher == [handlerMap |-> handlerMap, secret |-> secret, onError |-> onError]

NoRequest == [event |-> "", payload |-> 1, sig |-> NoSignature]

NoResponse == [status |-> 0, body |-> NoBody]

\* the state after d := NewEventDispatcher(hs, sec, eh)
NewDispatcherState(hs, sec, eh) ==
    /\ handlers = hs
    /\ secret = NewEventDispatcher(hs, sec, eh).secret
    /\ onError = NewEventDispatcher(hs, sec, eh).onError
    /\ handlerMap = NewEventDispatcher(hs, sec, eh).handlerMap
    /\ Count = [i \in 1..Len(hs) |-> 0]
    /\ served = 0
    /\ lastReq = NoRequest
    /\ lastResp = NoResponse
    /\ lastCalls = <<>>
    /\ lastErrCalls = 0
    /\ lastTrace = NoTrace

InitDispatcherVars ==
    \E hs \in HandlerLists, sec \in Secrets, eh \in ErrorHandlers : NewDispatcherState(hs, sec, eh)

ServeHTTP(r, hres) ==
    /\ served < MaxRequests
    /\ LET out == ServeHTTPResult(Dispatcher, r, hres) IN
          /\ lastReq' = r
          /\ lastResp' = [status |-> out.status, body |-> out.body]
          /\ lastCalls' = out.calls
          /\ lastErrCalls' = out.errCalls
          /\ lastTrace' = [hres |-> IF out.calls # <<>> THEN hres ELSE NilResult,
                           callEvents |-> out.callEvents, errArg |-> out.errArg,
                           writers |-> out.writers]
          /\ Count' = [i \in DOMAIN Count |->
                          Count[i] + Cardinality({k \in DOMAIN out.calls : out.calls[k] = i})]
    /\ served' = served + 1
    /\ UNCHANGED <<handlers, secret, onError, handlerMap>>

\* nothing served yet
NoneServed == [served |-> FALSE, req |-> NoRequest, hres |-> NilResult, calls |-> <<>>,
               errCalls |-> 0, resp |-> NoResponse]

\* ServeHTTP of one dispatcher called up to MaxReplays times
ServeAndRecord(r, hres) ==
    /\ served < MaxReplays
    /\ LET out == ServeHTTPResult(Dispatcher, r, hres) IN
          /\ lastReq' = r
          /\ lastResp' = [status |-> out.status, body |-> out.body]
          /\ lastCalls' = out.calls
          /\ lastErrCalls' = out.errCalls
          /\ lastTrace' = [hres |-> IF out.calls # <<>> THEN hres ELSE NilResult,
                           callEvents |-> out.callEvents, errArg |-> out.errArg,
                           writers |-> out.writers]
          /\ Count' = [i \in DOMAIN Count |->
                          Count[i] + Cardinality({k \in DOMAIN out.calls : out.calls[k] = i})]
          /\ firstServed' = IF firstServed.served THEN firstServed
                            ELSE [served |-> TRUE, req |-> r,
                                  hres |-> IF out.calls # <<>> THEN hres ELSE NilResult,
                                  calls |-> out.calls, errCalls |-> out.errCalls,
                                  resp |-> [status |-> out.status, body |-> out.body]]
    /\ served' = served + 1
    /\ UNCHANGED <<handlers, secret, onError, handlerMap>>

\* the deliveries replayed: any event type and body, unsigned or signed
\* with the first secret (which is or is not the dispatcher's)
ReplayRequests == {r \in Requests : r.sig \in {NoSignature, Sign(r.payload, 1)}}

\* what the handlers of replayed deliveries return: defaults, a status and
\* a body, an error alone, an error with status and body
ReplayResults ==
    {hres \in HandlerResults : (hres.status = 0 /\ hres.respbody = NoBody)
                                   \/ (hres.status = 201 /\ hres.respbody # NoBody)}

ReplayRequest ==
    \E r \in ReplayRequests :
        \E hres \in (IF ServeHTTPResult(Dispatcher, r, NilResult).calls # <<>>
                      THEN ReplayResults ELSE {NilResult}) : ServeAndRecord(r, hres)

\* the handler's result is an input only of the requests that reach a handler
ServeRequest ==
    \E r \in Requests :
        \E hres \in (IF ServeHTTPResult(Dispatcher, r, NilResult).calls # <<>>
                      THEN HandlerResults ELSE {NilResult}) : ServeHTTP(r, hres)

\* ------------------------------------------------------------------------
\* Schedulers: values
\* ------------------------------------------------------------------------
Kinds == {"default", "async", "queue"}

AsyncKinds == {"async", "queue"}

ErrCapacityExceeded == "scheduler: capacity exceeded"

\* fmt.Errorf("%v", r) / r.(error): the error value a recovered panic becomes
PanicErr == "recovered panic"

\* a panic that leaves Schedule of the synchronous scheduler
PanicPropagated == "panic"

DispatchIds == 1..MaxDispatches

GoroutineIds == 1..(IF MaxWorkers > MaxDispatches THEN MaxWorkers ELSE MaxDispatches)

HandleOutcomes == {"nil", "error", "panic"}

DeriverOutcomes == {"ok", "panic"}

\* the AsyncErrorCallback in use: DefaultAsyncErrorCallback (logs) or a
\* callback supplied through WithAsyncErrorCallback that panics
AsyncErrorCallbacks == {"default", "panics"}

OutcomeErr(out) == IF out = "nil" THEN NoErr ELSE IF out = "error" THEN HandlerErr ELSE PanicErr

\* per-dispatch record of what has happened to the dispatch of one Schedule
\* call: the call's result, the Handle invocations and their outcome, the
\* error-callback invocations, the counter updates made on its behalf and
\* how its execution ended, and the context Handle was given
NoHist == [res |-> "none", invoked |-> 0, outcome |-> "none", cbCalls |-> 0, cbErr |-> NoErr,
           cbCtx |-> "none", incs |-> 0, decs |-> 0, ended |-> "no", hctx |-> "none"]

\* the scheduler as the most recent Schedule call found it
NoCall == [d |-> 0, res |-> "none", qlen |-> 0, parked |-> 0, handling |-> {}]

VARIABLES kind, queueSize, workers, asyncOnError, queue, recvq, pc, cur, err, activeWorkers,
          submitted, lastCall, dequeued, hist, crashed

svars == <<kind, queueSize, workers, asyncOnError, queue, recvq, pc, cur, err, activeWorkers,
           submitted, lastCall, dequeued, hist, crashed>>

\* The HTTP front around the scheduler: the response callback in use, the
\* calls made to it for the last request, and the response written for the
\* delivery behind each dispatch, and the dispatches whose request context
\* (the Ctx of the Dispatch given to Schedule) has been cancelled, and the
\* last call of SetResponder: the context it was given, whether it
\* panicked, and the responder cell of that context afterwards
VARIABLES onResponse, lastRespCalls, resp, reqCancelled, lastSet

fvars == <<onResponse, lastRespCalls, resp, reqCancelled, lastSet>>

\* Package appconfig: the bytes given to the remote-reference parser and
\* what it returned, the loader and repositories given to LoadConfig and
\* how that call ended
VARIABLES yamlInput, parseOut, loadInput, loadOut

cvars == <<yamlInput, parseOut, loadInput, loadOut>>

\* The responder cells of each delivery under an asynchronous scheduler:
\* the cell of the request's context, the cell of the context its handler
\* runs with, whether the handler called SetResponder, whether that call
\* panicked, and whether it came before the response was written
VARIABLES cells

avars == <<cells>>

\* The caching installations service: which of the two copies of
\* GetByRepository is built, the capacity of the LRU cache, its entries
\* from least to most recently used, and the last call with its outcome
VARIABLES keyBuild, capacity, cache, lastGet

ivars == <<keyBuild, capacity, cache, lastGet>>

\* The construction of an asynchronous scheduler: the options it was given,
\* how many of them the constructor has applied, and the field s.deriver
\* (s.onError is asyncOnError)
VARIABLES opts, applied, deriver

ovars == <<opts, applied, deriver>>

vars == <<dvars, svars, fvars, cvars, rvars, avars, ivars, ovars>>

\* ------------------------------------------------------------------------
\* Schedulers: construction
\* ------------------------------------------------------------------------
\* DefaultScheduler(), AsyncScheduler(), QueueAsyncScheduler(queueSize, workers):
\* the queue scheduler starts `workers` goroutines, each about to receive
NewScheduler(k, qs, w, cb) ==
    /\ kind = k
    /\ queueSize = qs
    /\ workers = w
    /\ asyncOnError = cb
    /\ queue = <<>>
    /\ recvq = <<>>
    /\ pc = [g \in GoroutineIds |-> IF k = "queue" /\ g <= w THEN "range" ELSE "none"]
    /\ cur = [g \in GoroutineIds |-> 0]
    /\ err = [g \in GoroutineIds |-> NoErr]
    /\ activeWorkers = 0
    /\ submitted = 0
    /\ lastCall = NoCall
    /\ dequeued = <<>>
    /\ hist = [d \in DispatchIds |-> NoHist]
    /\ crashed = FALSE

\* a constructor that takes its arguments as they come
QueueAsyncSchedulerUnchecked(qs, w, cb) == NewScheduler("queue", qs, w, cb)

\* QueueAsyncScheduler(queueSize, workers, opts...): panics on a negative
\* queue size or a worker count below 1, before the channel is made and
\* before any worker is started; the panic is fatal at startup, so no
\* scheduler exists and nothing runs
QueueAsyncScheduler(qs, w, cb) ==
    IF qs < 0 \/ w < 1
    THEN /\ kind = "queue"
         /\ queueSize = qs
         /\ workers = w
         /\ asyncOnError = cb
         /\ queue = <<>>
         /\ recvq = <<>>
         /\ pc = [g \in GoroutineIds |-> "none"]
         /\ cur = [g \in GoroutineIds |-> 0]
         /\ err = [g \in GoroutineIds |-> NoErr]
         /\ activeWorkers = 0
         /\ submitted = 0
         /\ lastCall = NoCall
         /\ dequeued = <<>>
         /\ hist = [d \in DispatchIds |-> NoHist]
         /\ crashed = TRUE
    ELSE NewScheduler("queue", qs, w, cb)

InitSchedulerVars ==
    \/ NewScheduler("default", 0, 0, "default")
    \/ \E cb \in AsyncErrorCallbacks : NewScheduler("async", 0, 0, cb)
    \/ \E qs \in 0..MaxQueueSize, w \in 1..MaxWorkers, cb \in AsyncErrorCallbacks :
          NewScheduler("queue", qs, w, cb)

\* ------------------------------------------------------------------------
\* Schedulers: the channel s.queue
\* ------------------------------------------------------------------------
\* no room for a non-blocking send: no receiver is parked on the channel and
\* the buffer holds queueSize elements (none, for an unbuffered channel)
ChanFull == recvq = <<>> /\ Len(queue) = queueSize

\* the dispatches whose handler is inside Handle
Handling == {cur[g] : g \in {x \in GoroutineIds : pc[x] = "handling"}}

CallRecord(d, res) ==
    [d |-> d, res |-> res, qlen |-> Len(queue), parked |-> Len(recvq), handling |-> Handling]

\* ------------------------------------------------------------------------
\* Schedulers: Schedule
\* ------------------------------------------------------------------------
\* a synchronous Schedule that runs the dispatch through safeExecute: the
\* context derived, a panic recovered, the error given to the callback and
\* nil returned
ScheduleDefaultSafe(out) ==
    /\ kind = "default"
    /\ ~crashed
    /\ submitted < MaxDispatches
    /\ LET d == submitted + 1 IN
          /\ hist' = [hist EXCEPT ![d].res = NoErr, ![d].invoked = @ + 1, ![d].outcome = out,
                                  ![d].hctx = "derived", ![d].incs = @ + 1, ![d].decs = @ + 1,
                                  ![d].cbCalls = IF out = "nil" THEN @ ELSE @ + 1,
                                  ![d].cbErr = OutcomeErr(out), ![d].ended = "returned"]
          /\ lastCall' = CallRecord(d, NoErr)
    /\ submitted' = submitted + 1
    /\ UNCHANGED <<kind, queueSize, workers, asyncOnError, queue, recvq, pc, cur, err,
                   activeWorkers, dequeued, crashed>>

\* defaultScheduler.Schedule: return d.Execute()
ScheduleDefault(out) ==
    /\ kind = "default"
    /\ ~crashed
    /\ submitted < MaxDispatches
    /\ LET d == submitted + 1
           res == IF out = "panic" THEN PanicPropagated ELSE OutcomeErr(out) IN
          /\ hist' = [hist EXCEPT ![d].res = res, ![d].invoked = @ + 1, ![d].outcome = out,
                                  ![d].hctx = "request",
                                  ![d].ended = IF out = "panic" THEN "panicked" ELSE "returned"]
          /\ lastCall' = CallRecord(d, res)
    /\ submitted' = submitted + 1
    /\ UNCHANGED <<kind, queueSize, workers, asyncOnError, queue, recvq, pc, cur, err,
                   activeWorkers, dequeued, crashed>>

\* a Schedule that runs the handler itself and returns what it returned
ScheduleAsyncInline ==
    /\ kind = "async"
    /\ ~crashed
    /\ submitted < MaxDispatches
    /\ \E out \in {"nil", "error"} :
          /\ hist' = [hist EXCEPT ![submitted + 1].res = OutcomeErr(out),
                                  ![submitted + 1].invoked = @ + 1,
                                  ![submitted + 1].outcome = out,
                                  ![submitted + 1].hctx = "request",
                                  ![submitted + 1].ended = "returned"]
          /\ lastCall' = CallRecord(submitted + 1, OutcomeErr(out))
    /\ submitted' = submitted + 1
    /\ UNCHANGED <<kind, queueSize, workers, asyncOnError, queue, recvq, pc, cur, err,
                   activeWorkers, dequeued, crashed>>

\* a Schedule that starts no goroutine while another execution is under way
ScheduleAsyncLimited ==
    /\ kind = "async"
    /\ ~crashed
    /\ submitted < MaxDispatches
    /\ LET d == submitted + 1
           res == IF \E g \in GoroutineIds : pc[g] \in {"inc", "handling", "deferred"}
                  THEN ErrCapacityExceeded ELSE NoErr IN
          /\ pc' = IF res = NoErr THEN [pc EXCEPT ![d] = "inc"] ELSE pc
          /\ cur' = IF res = NoErr THEN [cur EXCEPT ![d] = d] ELSE cur
          /\ hist' = [hist EXCEPT ![d].res = res]
          /\ lastCall' = CallRecord(d, res)
    /\ submitted' = submitted + 1
    /\ UNCHANGED <<kind, queueSize, workers, asyncOnError, queue, recvq, err, activeWorkers,
                   dequeued, crashed>>

\* asyncScheduler.Schedule: go s.safeExecute(d); return nil
ScheduleAsync ==
    /\ kind = "async"
    /\ ~crashed
    /\ submitted < MaxDispatches
    /\ LET d == submitted + 1 IN
          /\ pc' = [pc EXCEPT ![d] = "inc"]
          /\ cur' = [cur EXCEPT ![d] = d]
          /\ hist' = [hist EXCEPT ![d].res = NoErr]
          /\ lastCall' = CallRecord(d, NoErr)
    /\ submitted' = submitted + 1
    /\ UNCHANGED <<kind, queueSize, workers, asyncOnError, queue, recvq, err, activeWorkers,
                   dequeued, crashed>>

\* a send that waits for room instead of taking the default case
ScheduleQueueBlocking ==
    /\ kind = "queue"
    /\ ~crashed
    /\ submitted < MaxDispatches
    /\ ~ChanFull
    /\ LET d == submitted + 1 IN
          /\ IF recvq # <<>>
             THEN /\ pc' = [pc EXCEPT ![Head(recvq)] = "inc"]
                  /\ cur' = [cur EXCEPT ![Head(recvq)] = d]
                  /\ recvq' = Tail(recvq)
                  /\ dequeued' = Append(dequeued, d)
                  /\ queue' = queue
             ELSE /\ queue' = Append(queue, d)
                  /\ UNCHANGED <<pc, cur, recvq, dequeued>>
          /\ hist' = [hist EXCEPT ![d].res = NoErr]
          /\ lastCall' = CallRecord(d, NoErr)
    /\ submitted' = submitted + 1
    /\ UNCHANGED <<kind, queueSize, workers, asyncOnError, err, activeWorkers, crashed>>

\* a send that falls to the default case whenever a handler is running
ScheduleQueueBusyRejects ==
    /\ kind = "queue"
    /\ ~crashed
    /\ submitted < MaxDispatches
    /\ LET d == submitted + 1
           res == IF ChanFull \/ Handling # {} THEN ErrCapacityExceeded ELSE NoErr IN
          /\ IF res # NoErr
             THEN UNCHANGED <<queue, pc, cur, recvq, dequeued>>
             ELSE IF recvq # <<>>
             THEN /\ pc' = [pc EXCEPT ![Head(recvq)] = "inc"]
                  /\ cur' = [cur EXCEPT ![Head(recvq)] = d]
                  /\ recvq' = Tail(recvq)
                  /\ dequeued' = Append(dequeued, d)
                  /\ queue' = queue
             ELSE /\ queue' = Append(queue, d)
                  /\ UNCHANGED <<pc, cur, recvq, dequeued>>
          /\ hist' = [hist EXCEPT ![d].res = res]
          /\ lastCall' = CallRecord(d, res)
    /\ submitted' = submitted + 1
    /\ UNCHANGED <<kind, queueSize, workers, asyncOnError, err, activeWorkers, crashed>>

\* a send that reports the capacity error and leaves the dispatch in the
\* buffer all the same
ScheduleQueueRejectedStays ==
    /\ kind = "queue"
    /\ ~crashed
    /\ submitted < MaxDispatches
    /\ LET d == submitted + 1
           res == IF recvq # <<>> \/ Len(queue) < queueSize THEN NoErr ELSE ErrCapacityExceeded IN
          /\ IF recvq # <<>>
             THEN /\ pc' = [pc EXCEPT ![Head(recvq)] = "inc"]
                  /\ cur' = [cur EXCEPT ![Head(recvq)] = d]
                  /\ recvq' = Tail(recvq)
                  /\ dequeued' = Append(dequeued, d)
                  /\ queue' = queue
             ELSE /\ queue' = Append(queue, d)
                  /\ UNCHANGED <<pc, cur, recvq, dequeued>>
          /\ hist' = [hist EXCEPT ![d].res = res]
          /\ lastCall' = CallRecord(d, res)
    /\ submitted' = submitted + 1
    /\ UNCHANGED <<kind, queueSize, workers, asyncOnError, err, activeWorkers, crashed>>

\* a send into a buffer that grows as needed
ScheduleQueueUnbounded ==
    /\ kind = "queue"
    /\ ~crashed
    /\ submitted < MaxDispatches
    /\ LET d == submitted + 1 IN
          /\ IF recvq # <<>>
             THEN /\ pc' = [pc EXCEPT ![Head(recvq)] = "inc"]
                  /\ cur' = [cur EXCEPT ![Head(recvq)] = d]
                  /\ recvq' = Tail(recvq)
                  /\ dequeued' = Append(dequeued, d)
                  /\ queue' = queue
             ELSE /\ queue' = Append(queue, d)
                  /\ UNCHANGED <<pc, cur, recvq, dequeued>>
          /\ hist' = [hist EXCEPT ![d].res = NoErr]
          /\ lastCall' = CallRecord(d, NoErr)
    /\ submitted' = submitted + 1
    /\ UNCHANGED <<kind, queueSize, workers, asyncOnError, err, activeWorkers, crashed>>

\* queueScheduler.Schedule: select { case s.queue <- d: default: return ErrCapacityExceeded }
\* The send goes to a receiver parked on the channel if there is one, else
\* into the buffer if it has room, else the default case is taken.
ScheduleQueue ==
    /\ kind = "queue"
    /\ ~crashed
    /\ submitted < MaxDispatches
    /\ LET d == submitted + 1
           res == IF recvq # <<>> \/ Len(queue) < queueSize THEN NoErr ELSE ErrCapacityExceeded IN
          /\ IF recvq # <<>>
             THEN /\ pc' = [pc EXCEPT ![Head(recvq)] = "inc"]
                  /\ cur' = [cur EXCEPT ![Head(recvq)] = d]
                  /\ recvq' = Tail(recvq)
                  /\ dequeued' = Append(dequeued, d)
                  /\ queue' = queue
             ELSE IF Len(queue) < queueSize
             THEN /\ queue' = Append(queue, d)
                  /\ UNCHANGED <<pc, cur, recvq, dequeued>>
             ELSE UNCHANGED <<queue, pc, cur, recvq, dequeued>>
          /\ hist' = [hist EXCEPT ![d].res = res]
          /\ lastCall' = CallRecord(d, res)
    /\ submitted' = submitted + 1
    /\ UNCHANGED <<kind, queueSize, workers, asyncOnError, err, activeWorkers, crashed>>

\* ------------------------------------------------------------------------
\* Schedulers: the worker loop
\* ------------------------------------------------------------------------
\* a receive that takes the newest element of the buffer
RecvNewest(g) ==
    /\ pc[g] = "range"
    /\ ~crashed
    /\ IF queue # <<>>
       THEN /\ cur' = [cur EXCEPT ![g] = queue[Len(queue)]]
            /\ queue' = SubSeq(queue, 1, Len(queue) - 1)
            /\ dequeued' = Append(dequeued, queue[Len(queue)])
            /\ pc' = [pc EXCEPT ![g] = "inc"]
            /\ recvq' = recvq
       ELSE /\ recvq' = Append(recvq, g)
            /\ pc' = [pc EXCEPT ![g] = "parked"]
            /\ UNCHANGED <<cur, queue, dequeued>>
    /\ UNCHANGED <<kind, queueSize, workers, asyncOnError, err, activeWorkers, submitted,
                   lastCall, hist, crashed>>

\* a receive that reads the head of the buffer without removing it
RecvKeep(g) ==
    /\ pc[g] = "range"
    /\ ~crashed
    /\ IF queue # <<>>
       THEN /\ cur' = [cur EXCEPT ![g] = Head(queue)]
            /\ queue' = queue
            /\ dequeued' = Append(dequeued, Head(queue))
            /\ pc' = [pc EXCEPT ![g] = "inc"]
            /\ recvq' = recvq
       ELSE /\ recvq' = Append(recvq, g)
            /\ pc' = [pc EXCEPT ![g] = "parked"]
            /\ UNCHANGED <<cur, queue, dequeued>>
    /\ UNCHANGED <<kind, queueSize, workers, asyncOnError, err, activeWorkers, submitted,
                   lastCall, hist, crashed>>

\* for d := range s.queue: take the oldest buffered dispatch, or park on the
\* channel until a sender hands one over
Recv(g) ==
    /\ pc[g] = "range"
    /\ ~crashed
    /\ IF queue # <<>>
       THEN /\ cur' = [cur EXCEPT ![g] = Head(queue)]
            /\ queue' = Tail(queue)
            /\ dequeued' = Append(dequeued, Head(queue))
            /\ pc' = [pc EXCEPT ![g] = "inc"]
            /\ recvq' = recvq
       ELSE /\ recvq' = Append(recvq, g)
            /\ pc' = [pc EXCEPT ![g] = "parked"]
            /\ UNCHANGED <<cur, queue, dequeued>>
    /\ UNCHANGED <<kind, queueSize, workers, asyncOnError, err, activeWorkers, submitted,
                   lastCall, hist, crashed>>

\* ------------------------------------------------------------------------
\* Schedulers: safeExecute, step by step
\* ------------------------------------------------------------------------
\* a safeExecute that hands the handler the Ctx it was given, underived
BeginKeepsRequestCtx(g, dout) ==
    /\ pc[g] = "inc"
    /\ ~crashed
    /\ activeWorkers' = activeWorkers + 1
    /\ hist' = [hist EXCEPT ![cur[g]].incs = @ + 1, ![cur[g]].invoked = @ + 1,
                            ![cur[g]].hctx = "request"]
    /\ pc' = [pc EXCEPT ![g] = "handling"]
    /\ err' = err
    /\ UNCHANGED <<kind, queueSize, workers, asyncOnError, queue, recvq, cur, submitted,
                   lastCall, dequeued, crashed>>

\* atomic.AddInt64(&s.activeWorkers, 1); d.Ctx = s.deriver(d.Ctx); d.Execute()
\* up to the entry of Handle.  A deriver that panics unwinds to the deferred
\* function with d.Ctx still the request's context.
Begin(g, dout) ==
    /\ pc[g] = "inc"
    /\ ~crashed
    /\ activeWorkers' = activeWorkers + 1
    /\ IF dout = "ok"
       THEN /\ hist' = [hist EXCEPT ![cur[g]].incs = @ + 1, ![cur[g]].invoked = @ + 1,
                                    ![cur[g]].hctx = "derived"]
            /\ pc' = [pc EXCEPT ![g] = "handling"]
            /\ err' = err
       ELSE /\ hist' = [hist EXCEPT ![cur[g]].incs = @ + 1, ![cur[g]].outcome = "deriverPanic"]
            /\ pc' = [pc EXCEPT ![g] = "deferred"]
            /\ err' = [err EXCEPT ![g] = PanicErr]
    /\ UNCHANGED <<kind, queueSize, workers, asyncOnError, queue, recvq, cur, submitted,
                   lastCall, dequeued, crashed>>

\* a Handle whose panic is not recovered: the goroutine dies with it
HandleReturnNoRecover(g, out) ==
    /\ pc[g] = "handling"
    /\ ~crashed
    /\ hist' = [hist EXCEPT ![cur[g]].outcome = out,
                            ![cur[g]].ended = IF out = "panic" THEN "panicked" ELSE @]
    /\ err' = [err EXCEPT ![g] = OutcomeErr(out)]
    /\ pc' = [pc EXCEPT ![g] = IF out = "panic" THEN "crashed" ELSE "deferred"]
    /\ crashed' = (out = "panic")
    /\ UNCHANGED <<kind, queueSize, workers, asyncOnError, queue, recvq, cur, activeWorkers,
                   submitted, lastCall, dequeued>>

\* Handle returns or panics: err = d.Execute(), or recover() in the deferred
\* function turns the panic value into err
HandleReturn(g, out) ==
    /\ pc[g] = "handling"
    /\ ~crashed
    /\ hist' = [hist EXCEPT ![cur[g]].outcome = out]
    /\ err' = [err EXCEPT ![g] = OutcomeErr(out)]
    /\ pc' = [pc EXCEPT ![g] = "deferred"]
    /\ UNCHANGED <<kind, queueSize, workers, asyncOnError, queue, recvq, cur, activeWorkers,
                   submitted, lastCall, dequeued, crashed>>

\* a deferred function that is handed the context of the request
CtxOfRequest(d) == "request"

\* the context safeExecute holds in d.Ctx when the deferred function runs
CtxOf(d) == IF hist[d].outcome = "deriverPanic" THEN "request" ELSE "derived"

\* the decrement made on the path without an error only
DeferredDecOnSuccess(g) ==
    /\ pc[g] = "deferred"
    /\ ~crashed
    /\ IF err[g] = NoErr
       THEN /\ hist' = [hist EXCEPT ![cur[g]].decs = @ + 1, ![cur[g]].ended = "returned"]
            /\ activeWorkers' = activeWorkers - 1
       ELSE /\ hist' = [hist EXCEPT ![cur[g]].cbCalls = @ + 1, ![cur[g]].cbErr = err[g],
                                    ![cur[g]].cbCtx = CtxOf(cur[g]), ![cur[g]].ended = "returned"]
            /\ activeWorkers' = activeWorkers
    /\ pc' = [pc EXCEPT ![g] = IF kind = "queue" THEN "range" ELSE "exit"]
    /\ cur' = [cur EXCEPT ![g] = 0]
    /\ err' = [err EXCEPT ![g] = NoErr]
    /\ crashed' = crashed
    /\ UNCHANGED <<kind, queueSize, workers, asyncOnError, queue, recvq, submitted, lastCall,
                   dequeued>>

\* a deferred function that drops the error instead of reporting it
DeferredNoCallback(g) ==
    /\ pc[g] = "deferred"
    /\ ~crashed
    /\ hist' = [hist EXCEPT ![cur[g]].decs = @ + 1, ![cur[g]].ended = "returned"]
    /\ activeWorkers' = activeWorkers - 1
    /\ pc' = [pc EXCEPT ![g] = IF kind = "queue" THEN "range" ELSE "exit"]
    /\ cur' = [cur EXCEPT ![g] = 0]
    /\ err' = [err EXCEPT ![g] = NoErr]
    /\ crashed' = crashed
    /\ UNCHANGED <<kind, queueSize, workers, asyncOnError, queue, recvq, submitted, lastCall,
                   dequeued>>

\* a pool worker that leaves its loop after one dispatch
DeferredWorkerExits(g) ==
    /\ pc[g] = "deferred"
    /\ ~crashed
    /\ hist' = IF err[g] # NoErr
               THEN [hist EXCEPT ![cur[g]].cbCalls = @ + 1, ![cur[g]].cbErr = err[g],
                                 ![cur[g]].cbCtx = CtxOf(cur[g]), ![cur[g]].decs = @ + 1,
                                 ![cur[g]].ended = "returned"]
               ELSE [hist EXCEPT ![cur[g]].decs = @ + 1, ![cur[g]].ended = "returned"]
    /\ activeWorkers' = activeWorkers - 1
    /\ pc' = [pc EXCEPT ![g] = "exit"]
    /\ cur' = [cur EXCEPT ![g] = 0]
    /\ err' = [err EXCEPT ![g] = NoErr]
    /\ crashed' = crashed
    /\ UNCHANGED <<kind, queueSize, workers, asyncOnError, queue, recvq, submitted, lastCall,
                   dequeued>>

\* the rest of the deferred function:
\*   if err != nil && s.onError != nil { s.onError(d.Ctx, err) }
\*   atomic.AddInt64(&s.activeWorkers, -1)
\* and safeExecute returns: a pool worker goes back to its receive, a
\* goroutine of the async scheduler ends.  A callback that panics does so
\* inside the deferred function, after recover() has run: nothing recovers
\* it, the decrement after it is skipped, and the panic ends the goroutine
\* and with it the process.
Deferred(g) ==
    /\ pc[g] = "deferred"
    /\ ~crashed
    /\ IF err[g] # NoErr /\ asyncOnError = "panics"
       THEN /\ hist' = [hist EXCEPT ![cur[g]].cbCalls = @ + 1, ![cur[g]].cbErr = err[g],
                                    ![cur[g]].cbCtx = CtxOf(cur[g]), ![cur[g]].ended = "panicked"]
            /\ pc' = [pc EXCEPT ![g] = "crashed"]
            /\ crashed' = TRUE
            /\ UNCHANGED <<activeWorkers, cur, err>>
       ELSE /\ hist' = IF err[g] # NoErr
                       THEN [hist EXCEPT ![cur[g]].cbCalls = @ + 1, ![cur[g]].cbErr = err[g],
                                         ![cur[g]].cbCtx = CtxOf(cur[g]), ![cur[g]].decs = @ + 1,
                                         ![cur[g]].ended = "returned"]
                       ELSE [hist EXCEPT ![cur[g]].decs = @ + 1, ![cur[g]].ended = "returned"]
            /\ activeWorkers' = activeWorkers - 1
            /\ pc' = [pc EXCEPT ![g] = IF kind = "queue" THEN "range" ELSE "exit"]
            /\ cur' = [cur EXCEPT ![g] = 0]
            /\ err' = [err EXCEPT ![g] = NoErr]
            /\ crashed' = crashed
    /\ UNCHANGED <<kind, queueSize, workers, asyncOnError, queue, recvq, submitted, lastCall,
                   dequeued>>

\* ------------------------------------------------------------------------
\* The HTTP front after Schedule returns
\* ------------------------------------------------------------------------
ResponseCallbacks == {"nil", "custom"}

StatusServiceUnavailable == 503

BusyBody == "Service Unavailable\n"

\* no SetResponder call yet
NoSet == [ctx |-> "none", panicked |-> FALSE, cell |-> "absent"]

NewFrontState(cb) ==
    /\ onResponse = cb
    /\ lastRespCalls = <<>>
    /\ resp = [d \in DispatchIds |-> NoResponse]
    /\ reqCancelled = {}
    /\ lastSet = NoSet

\* What ServeHTTP writes once Schedule has returned res for a registered,
\* validly signed delivery and no response callback is configured: nothing
\* when a handler panic unwinds through it, the server-busy answer for a
\* capacity error, the error callback's answer for a handler error that
\* the synchronous scheduler returned, else the acknowledgment.
FrontAfterSchedule(res) ==
    IF res = PanicPropagated THEN NoResponse
    ELSE IF res = ErrCapacityExceeded THEN HttpError(BusyBody, StatusServiceUnavailable)
    ELSE IF res # NoErr THEN CallOnError(onError)
    ELSE [status |-> StatusOK, body |-> NoBody]

\* ServeHTTP around the Schedule call of this step
Respond ==
    /\ resp' = [resp EXCEPT ![submitted + 1] = FrontAfterSchedule(hist'[submitted + 1].res)]
    /\ UNCHANGED <<onResponse, lastRespCalls, reqCancelled, lastSet>>

StatusCreated == 201

StatusNotFound == 404

\* fmt.Sprintf("Created an entry for the %s event!\n", event)
CreatedBody(event) ==
    IF event = "ping" THEN "Created an entry for the ping event!\n"
    ELSE IF event = "pull_request" THEN "Created an entry for the pull_request event!\n"
    ELSE "Created an entry for the issue_comment event!\n"

\* fmt.Sprintf("No handler for the %s event!\n", event)
NoHandlerBody(event) ==
    IF event = "ping" THEN "No handler for the ping event!\n"
    ELSE IF event = "pull_request" THEN "No handler for the pull_request event!\n"
    ELSE "No handler for the issue_comment event!\n"

\* the response callback of the tests: 201 for a handled event, 404 for an
\* event without handler
CustomResponseCallback(event, handled) ==
    IF handled THEN [status |-> StatusCreated, body |-> CreatedBody(event)]
    ELSE [status |-> StatusNotFound, body |-> NoHandlerBody(event)]

\* ServeHTTP of a dispatcher with the synchronous scheduler and response
\* callback cb ("nil": none configured).  Header check, signature check,
\* routing and the error path are those of ServeHTTPResult; where that
\* writes the outcome of a handled event, or the 202 of an event without
\* handler, a configured response callback is called with (event, handled)
\* and writes the response instead.  A ping without handler is answered
\* 200 at once.
FrontResult(d, cb, r, hres) ==
    LET base == ServeHTTPResult(d, r, hres)
        handled == base.calls # <<>>
        routed == r.event # "" /\ ValidatePayload(r, d.secret) /\ base.errCalls = 0
                     /\ (handled \/ r.event # PingEvent)
    IN  IF routed /\ cb = "custom"
        THEN [out |-> [base EXCEPT !.status = CustomResponseCallback(r.event, handled).status,
                                   !.body = CustomResponseCallback(r.event, handled).body,
                                   !.writers = <<"onResponse">>],
              respCalls |-> <<[event |-> r.event, handled |-> handled]>>]
        ELSE [out |-> base, respCalls |-> <<>>]

FrontServeHTTP(r, hres) ==
    /\ served < MaxRequests
    /\ LET res == FrontResult(Dispatcher, onResponse, r, hres) IN
          /\ lastReq' = r
          /\ lastResp' = [status |-> res.out.status, body |-> res.out.body]
          /\ lastCalls' = res.out.calls
          /\ lastErrCalls' = res.out.errCalls
          /\ lastTrace' = [hres |-> IF res.out.calls # <<>> THEN hres ELSE NilResult,
                           callEvents |-> res.out.callEvents, errArg |-> res.out.errArg,
                           writers |-> res.out.writers]
          /\ lastRespCalls' = res.respCalls
          /\ Count' = [i \in DOMAIN Count |->
                          Count[i] + Cardinality({k \in DOMAIN res.out.calls : res.out.calls[k] = i})]
    /\ served' = served + 1
    /\ UNCHANGED <<handlers, secret, onError, handlerMap, onResponse, resp, reqCancelled, lastSet>>

\* the deliveries sent to this dispatcher all carry body 1; a signature is
\* missing, or the MAC under either secret of this body or of another one
FrontRequests == {r \in Requests : r.payload = 1}

FrontServeRequest ==
    \E r \in FrontRequests :
        \E hres \in (IF ServeHTTPResult(Dispatcher, r, NilResult).calls # <<>>
                      THEN HandlerResults ELSE {NilResult}) : FrontServeHTTP(r, hres)

\* ------------------------------------------------------------------------
\* The responder cell of a delivery
\* ------------------------------------------------------------------------
\* A context either carries no responder cell ("absent") or a cell that
\* holds a responder: "nil" until one is set, "teapot" for the responder
\* of the tests, which writes 418 and "I'm a teapot!\n".
StatusTeapot == 418

TeapotBody == "I'm a teapot!\n"

Responders == {"nil", "teapot"}

\* what the handler does with its context before it returns: nothing, or
\* SetResponder(ctx, teapot)
HandlerActs == {"none", "set"}

\* InitializeResponder(ctx): the context with a fresh, empty cell
InitializeResponder(cell) == "nil"

\* SetResponder that stores into whatever context it is given
SetResponderUnchecked(cell, responder) == [panicked |-> FALSE, cell |-> responder]

\* SetResponder(ctx, responder): panics when ctx carries no cell, else
\* stores the responder in the cell
SetResponder(cell, responder) ==
    IF cell = "absent" THEN [panicked |-> TRUE, cell |-> cell]
    ELSE [panicked |-> FALSE, cell |-> responder]

\* GetResponder(ctx): the responder of the cell, nil when none was set or
\* the context carries no cell
GetResponder(cell) == IF cell = "absent" THEN "nil" ELSE cell

\* what a responder writes
CallResponder(responder) == [status |-> StatusTeapot, body |-> TeapotBody]

\* ServeHTTP with the responder cell: the context given to the handler is
\* InitializeResponder(r.Context()); the handler acts on it; after a
\* handler that returned nil, with no response callback configured, the
\* default response callback lets the responder found in the cell write
\* the response, and writes the default response when there is none.  A
\* configured response callback (the one of the tests) does not look at
\* the cell, and neither does the error callback.
ResponderResult(d, cb, r, hres, act) ==
    LET fr == FrontResult(d, cb, r, hres)
        invoked == fr.out.calls # <<>>
        ctx == InitializeResponder("absent")
        set == IF invoked /\ act = "set" THEN SetResponder(ctx, "teapot")
               ELSE [panicked |-> FALSE, cell |-> ctx]
        responder == GetResponder(set.cell)
    IN  [out |-> IF invoked /\ hres.err = NoErr /\ cb = "nil" /\ responder # "nil"
                 THEN [fr.out EXCEPT !.status = CallResponder(responder).status,
                                     !.body = CallResponder(responder).body,
                                     !.writers = <<"responder">>]
                 ELSE fr.out,
         respCalls |-> fr.respCalls,
         set |-> IF invoked /\ act = "set"
                 THEN [ctx |-> "dispatcher", panicked |-> set.panicked, cell |-> set.cell]
                 ELSE NoSet]

ResponderServeHTTP(r, hres, act) ==
    /\ served < MaxRequests
    /\ LET res == ResponderResult(Dispatcher, onResponse, r, hres, act) IN
          /\ lastReq' = r
          /\ lastResp' = [status |-> res.out.status, body |-> res.out.body]
          /\ lastCalls' = res.out.calls
          /\ lastErrCalls' = res.out.errCalls
          /\ lastTrace' = [hres |-> IF res.out.calls # <<>> THEN hres ELSE NilResult,
                           callEvents |-> res.out.callEvents, errArg |-> res.out.errArg,
                           writers |-> res.out.writers]
          /\ lastRespCalls' = res.respCalls
          /\ lastSet' = res.set
          /\ Count' = [i \in DOMAIN Count |->
                          Count[i] + Cardinality({k \in DOMAIN res.out.calls : res.out.calls[k] = i})]
    /\ served' = served + 1
    /\ UNCHANGED <<handlers, secret, onError, handlerMap, onResponse, resp, reqCancelled>>

ResponderServeRequest ==
    \E r \in FrontRequests :
        \E hres \in (IF ServeHTTPResult(Dispatcher, r, NilResult).calls # <<>>
                      THEN HandlerResults ELSE {NilResult}),
           act \in (IF ServeHTTPResult(Dispatcher, r, NilResult).calls # <<>>
                     THEN HandlerActs ELSE {"none"}) : ResponderServeHTTP(r, hres, act)

\* SetResponder(context.Background(), responder), called outside of any
\* delivery
SetResponderOutside ==
    /\ lastSet.ctx # "background"
    /\ LET set == SetResponder("absent", "teapot") IN
          lastSet' = [ctx |-> "background", panicked |-> set.panicked, cell |-> set.cell]
    /\ UNCHANGED <<dvars, svars, cvars, rvars, avars, ivars, ovars, onResponse, lastRespCalls, resp, reqCancelled>>

\* ------------------------------------------------------------------------
\* Package appconfig: YAMLRemoteRefParser
\* ------------------------------------------------------------------------
\* a field that the document does not have (a nil *string after decoding)
Absent == "<absent>"

\* The bytes given to the parser, by what they decode to: nothing at all,
\* comments only, a scalar (no mapping), or a mapping that has each of
\* remote, path and ref absent, empty or with a value, and possibly a key
\* that RemoteRef does not have.
YAMLKinds == {"empty", "comments", "scalar", "map"}

FieldValues(v) == {Absent, "", v}

YAMLInputs ==
    [kind : {"map"}, remote : FieldValues("test/test"), path : FieldValues("test.yaml"),
     ref : FieldValues("main"), extra : BOOLEAN]
    \cup [kind : YAMLKinds \ {"map"}, remote : {Absent}, path : {Absent}, ref : {Absent},
          extra : {FALSE}]

\* yaml.UnmarshalStrict(b, &maybeRef): an error for bytes that are no
\* mapping and for a mapping with a key the struct has no field for; empty
\* bytes and comments decode to nothing and leave the three pointers nil
UnmarshalStrict(b) ==
    IF b.kind = "scalar" \/ (b.kind = "map" /\ b.extra)
    THEN [err |-> TRUE, Remote |-> Absent, Path |-> Absent, Ref |-> Absent]
    ELSE [err |-> FALSE, Remote |-> b.remote, Path |-> b.path, Ref |-> b.ref]

\* fmt.Errorf("invalid remote reference: empty %q field", name)
EmptyFieldError(name) ==
    IF name = "remote" THEN "invalid remote reference: empty \"remote\" field"
    ELSE IF name = "path" THEN "invalid remote reference: empty \"path\" field"
    ELSE "invalid remote reference: empty \"ref\" field"

\* copyField(dst, src, name): *dst = *src when src is not nil; an error
\* when *dst is empty afterwards
copyField(dst, src, name) ==
    LET v == IF src # Absent THEN src ELSE dst
    IN  [dst |-> v, err |-> IF v = "" THEN EmptyFieldError(name) ELSE NoErr]

\* the nil *RemoteRef
NilRef == [nil |-> TRUE, Remote |-> "", Path |-> "", Ref |-> ""]

\* YAMLRemoteRefParser(path, b)
YAMLRemoteRefParser(path, b) ==
    LET m == UnmarshalStrict(b)
        remote == copyField("", m.Remote, "remote")
        pth == copyField("", m.Path, "path")
        ref == copyField("", m.Ref, "ref")
    IN  IF m.err THEN [called |-> TRUE, ref |-> NilRef, err |-> NoErr]
        ELSE IF m.Remote = Absent /\ m.Path = Absent /\ m.Ref = Absent
        THEN [called |-> TRUE, ref |-> NilRef, err |-> NoErr]
        ELSE IF remote.err # NoErr THEN [called |-> TRUE, ref |-> NilRef, err |-> remote.err]
        ELSE IF pth.err # NoErr THEN [called |-> TRUE, ref |-> NilRef, err |-> pth.err]
        ELSE [called |-> TRUE, err |-> NoErr,
              ref |-> [nil |-> FALSE, Remote |-> remote.dst, Path |-> pth.dst, Ref |-> ref.dst]]

NotParsed == [called |-> FALSE, ref |-> NilRef, err |-> NoErr]

\* ------------------------------------------------------------------------
\* Package appconfig: Loader.LoadConfig
\* ------------------------------------------------------------------------
ConfigPaths == {".github/test-app.v2.yml", ".github/test-app.yml"}

\* what a repository has at a path: nothing, a configuration file, or a
\* file that encodes a remote reference
FileKinds == {"missing", "local", "remote"}

\* NewLoader(paths) and the repositories that LoadConfig is called on: what
\* the repository has at each path, and what the owner's default
\* repository has
PathLists == UNION {[1..n -> ConfigPaths] : n \in 0..MaxPaths}

LoadInputs == [paths : PathLists, files : [ConfigPaths -> FileKinds], defaults : FileKinds]

\* the zero Config, for which IsUndefined() is true
UndefinedConfig == [Source |-> "", Path |-> "", IsRemote |-> FALSE]

\* Loader.LoadConfig: the body is panic("TODO(bkeyes): implement this")
LoadConfig(in) == [called |-> TRUE, panicked |-> TRUE, cfg |-> UndefinedConfig, err |-> NoErr]

NotLoaded == [called |-> FALSE, panicked |-> FALSE, cfg |-> UndefinedConfig, err |-> NoErr]

\* no call into package appconfig
\* no responder cell made yet
NoCells ==
    [d \in DispatchIds |-> [req |-> "absent", ctx |-> "absent", called |-> FALSE,
                            panicked |-> FALSE, early |-> FALSE]]

\* no call of the installations service
NoGet == [op |-> "none", owner |-> <<>>, name |-> <<>>, key |-> <<>>, hit |-> FALSE,
          delegateCalls |-> 0, install |-> 0, err |-> NoErr,
          by |-> [op |-> "none", owner |-> <<>>, name |-> <<>>]]

\* a scheduler constructed without options: s.deriver is DefaultContextDeriver
NoOptions ==
    /\ opts = <<>>
    /\ applied = 0
    /\ deriver = "default"

\* nothing replayed, no handler near a responder, an installations service
\* that is not used
Unused ==
    /\ firstServed = NoneServed
    /\ cells = NoCells
    /\ keyBuild = "installations_caching.go"
    /\ capacity = 1
    /\ cache = <<>>
    /\ lastGet = NoGet
    /\ NoOptions

NoConfigCalls ==
    /\ yamlInput = [kind |-> "empty", remote |-> Absent, path |-> Absent, ref |-> Absent,
                     extra |-> FALSE]
    /\ parseOut = NotParsed
    /\ loadInput = [paths |-> <<>>, files |-> [p \in ConfigPaths |-> "missing"],
                     defaults |-> "missing"]
    /\ loadOut = NotLoaded

\* ref, err := YAMLRemoteRefParser("test.yml", b)
ParseRemoteRef ==
    /\ ~parseOut.called
    /\ parseOut' = YAMLRemoteRefParser("test.yml", yamlInput)
    /\ UNCHANGED <<dvars, svars, fvars, rvars, avars, ivars, ovars, yamlInput, loadInput, loadOut>>

\* cfg, err := ld.LoadConfig(ctx, client, owner, repo)
CallLoadConfig ==
    /\ ~loadOut.called
    /\ loadOut' = LoadConfig(loadInput)
    /\ UNCHANGED <<dvars, svars, fvars, rvars, avars, ivars, ovars, yamlInput, parseOut, loadInput>>

\* ------------------------------------------------------------------------
\* Specifications
\* ------------------------------------------------------------------------
Init ==
    /\ InitSchedulerVars /\ NewDispatcherState(<<>>, 1, "nil") /\ NewFrontState("nil")
    /\ NoConfigCalls
    /\ Unused

Next ==
    \/ (\E out \in HandleOutcomes : ScheduleDefault(out)) /\ Respond /\ UNCHANGED <<dvars, cvars, rvars, avars, ivars, ovars>>
    \/ ScheduleAsync /\ Respond /\ UNCHANGED <<dvars, cvars, rvars, avars, ivars, ovars>>
    \/ ScheduleQueue /\ Respond /\ UNCHANGED <<dvars, cvars, rvars, avars, ivars, ovars>>
    \/ (\E g \in GoroutineIds : Recv(g)) /\ UNCHANGED <<dvars, fvars, cvars, rvars, avars, ivars, ovars>>
    \/ (\E g \in GoroutineIds, dout \in DeriverOutcomes : Begin(g, dout)) /\ UNCHANGED <<dvars, fvars, cvars, rvars, avars, ivars, ovars>>
    \/ (\E g \in GoroutineIds, out \in HandleOutcomes : HandleReturn(g, out))
          /\ UNCHANGED <<dvars, fvars, cvars, rvars, avars, ivars, ovars>>
    \/ (\E g \in GoroutineIds : Deferred(g)) /\ UNCHANGED <<dvars, fvars, cvars, rvars, avars, ivars, ovars>>

Spec == Init /\ [][Next]_vars

InitDispatcher ==
    /\ InitDispatcherVars /\ NewScheduler("default", 0, 0, "default") /\ NewFrontState("nil")
    /\ NoConfigCalls
    /\ Unused

NextDispatcher == ServeRequest /\ UNCHANGED <<svars, fvars, cvars, rvars, avars, ivars, ovars>>

SpecDispatcher == InitDispatcher /\ [][NextDispatcher]_vars

\* one dispatcher serving a sequence of deliveries, the first of which is
\* kept
NextReplay == ReplayRequest /\ UNCHANGED <<svars, fvars, cvars, avars, ivars, ovars>>

SpecReplay == InitDispatcher /\ [][NextReplay]_vars

InitFront ==
    /\ \E hs \in HandlerLists, eh \in ErrorHandlers : NewDispatcherState(hs, 1, eh)
    /\ NewScheduler("default", 0, 0, "default")
    /\ \E cb \in ResponseCallbacks : NewFrontState(cb)
    /\ NoConfigCalls
    /\ Unused

NextFront == FrontServeRequest /\ UNCHANGED <<svars, cvars, rvars, avars, ivars, ovars>>

SpecFront == InitFront /\ [][NextFront]_vars

\* The dispatcher with the synchronous scheduler, whose handlers may set a
\* responder, and callers of SetResponder outside of it
NextResponder ==
    \/ ResponderServeRequest /\ UNCHANGED <<svars, cvars, rvars, avars, ivars, ovars>>
    \/ SetResponderOutside

SpecResponder == InitFront /\ [][NextResponder]_vars

\* The asynchronous schedulers with hooks that return (the defaults log and
\* return), under a scheduler of goroutines that lets every goroutine that
\* can take a step take it eventually, and handlers that return or panic.
InitLive == Init /\ kind \in AsyncKinds /\ asyncOnError = "default"

GoroutineStep(g) ==
    /\ \/ Recv(g)
       \/ \E dout \in DeriverOutcomes : Begin(g, dout)
       \/ \E out \in HandleOutcomes : HandleReturn(g, out)
       \/ Deferred(g)
    /\ UNCHANGED <<dvars, fvars, cvars, rvars, avars, ivars, ovars>>

NextLive ==
    \/ ScheduleAsync /\ Respond /\ UNCHANGED <<dvars, cvars, rvars, avars, ivars, ovars>>
    \/ ScheduleQueue /\ Respond /\ UNCHANGED <<dvars, cvars, rvars, avars, ivars, ovars>>
    \/ \E g \in GoroutineIds : GoroutineStep(g)

Fairness == \A g \in GoroutineIds : WF_vars(GoroutineStep(g))

\* ------------------------------------------------------------------------
\* Schedulers: WithSchedulingMetrics
\* ------------------------------------------------------------------------
\* the functional gauge "github.event.queued": int64(len(s.queue))
QueueGauge == Len(queue)

\* the functional gauge "github.event.workers": atomic.LoadInt64(&s.activeWorkers)
WorkersGauge == activeWorkers

\* the counter of dropped events as the registry shows it: the option
\* registers the two gauges and nothing else, and Schedule updates no
\* metric, so the counter is never created and reads zero
DroppedCounter == 0

\* The queue scheduler constructed from any arguments, the invalid ones
\* included
InitConstruct ==
    /\ \E qs \in (-1)..MaxQueueSize, w \in 0..MaxWorkers, cb \in AsyncErrorCallbacks :
          QueueAsyncScheduler(qs, w, cb)
    /\ NewDispatcherState(<<>>, 1, "nil")
    /\ NewFrontState("nil")
    /\ NoConfigCalls
    /\ Unused

NextConstruct ==
    \/ ScheduleQueue /\ Respond /\ UNCHANGED <<dvars, cvars, rvars, avars, ivars, ovars>>
    \/ \E g \in GoroutineIds : GoroutineStep(g)

SpecConstruct == InitConstruct /\ [][NextConstruct]_vars

\* Package appconfig called on any input: the parser on any bytes, the
\* loader on any list of paths and any repositories
InitConfig ==
    /\ NewScheduler("default", 0, 0, "default")
    /\ NewDispatcherState(<<>>, 1, "nil") /\ NewFrontState("nil")
    /\ yamlInput \in YAMLInputs
    /\ parseOut = NotParsed
    /\ loadInput \in LoadInputs
    /\ Unused
    /\ loadOut = NotLoaded

NextConfig == ParseRemoteRef \/ CallLoadConfig

SpecConfig == InitConfig /\ [][NextConfig]_vars

\* a deriver that returns context.Background() as it is
DefaultContextDeriverBare(cell) == "absent"

\* DefaultContextDeriver(ctx): newCtx := context.Background();
\* newCtx = InitializeResponder(newCtx).  The cell of ctx is not carried
\* over.
DefaultContextDeriver(cell) == InitializeResponder("absent")

\* ServeHTTP up to the return of Schedule, under an asynchronous scheduler:
\* the request's context gets its responder cell and the dispatch is
\* scheduled
ScheduleWithCell ==
    /\ ScheduleAsync \/ ScheduleQueue
    /\ cells' = [cells EXCEPT ![submitted + 1].req = InitializeResponder("absent")]
    /\ UNCHANGED <<dvars, fvars, cvars, rvars, ivars, ovars>>

\* the handler, running in goroutine g, calls SetResponder(ctx, teapot) on
\* the context it was given: the derived one, or the request's when the
\* scheduler derived none
HandlerSetResponder(g) ==
    /\ pc[g] = "handling"
    /\ ~crashed
    /\ ~cells[cur[g]].called
    /\ Cardinality({d \in DispatchIds : cells[d].called}) < MaxSetCalls
    /\ LET d == cur[g]
           derived == hist[d].hctx = "derived"
           ctx == IF derived THEN DefaultContextDeriver(cells[d].req) ELSE cells[d].req
           set == SetResponder(ctx, "teapot")
       IN  cells' = [cells EXCEPT ![d] = [req |-> IF derived THEN @.req ELSE set.cell,
                                          ctx |-> set.cell, called |-> TRUE,
                                          panicked |-> set.panicked,
                                          early |-> resp[d] = NoResponse]]
    /\ UNCHANGED <<dvars, svars, fvars, cvars, rvars, ivars, ovars>>

\* ServeHTTP after Schedule has returned: with no response callback, the
\* responder found in the cell of the request's context writes the
\* response of an accepted delivery, and the default response is written
\* when there is none
RespondLater(d) ==
    /\ d \in 1..submitted
    /\ ~crashed
    /\ resp[d] = NoResponse
    /\ resp' = [resp EXCEPT ![d] =
                   IF hist[d].res = NoErr /\ GetResponder(cells[d].req) # "nil"
                   THEN CallResponder(GetResponder(cells[d].req))
                   ELSE FrontAfterSchedule(hist[d].res)]
    /\ UNCHANGED <<dvars, svars, cvars, rvars, avars, ivars, ovars, onResponse, lastRespCalls,
                   reqCancelled, lastSet>>

\* the asynchronous schedulers, with the default AsyncErrorCallback, behind
\* a dispatcher whose handlers set a responder
InitAsyncResponder == InitLive

NextAsyncResponder ==
    \/ ScheduleWithCell
    \/ \E g \in GoroutineIds : GoroutineStep(g)
    \/ \E g \in GoroutineIds : HandlerSetResponder(g)
    \/ \E d \in DispatchIds : RespondLater(d)

SpecAsyncResponder == InitAsyncResponder /\ [][NextAsyncResponder]_vars

\* ------------------------------------------------------------------------
\* The caching installations service
\* ------------------------------------------------------------------------
\* Strings are sequences of tokens: a format verb is one token, so is
\* every piece of text that holds none.
Verbs == {"%s", "%v"}

Owners == {<<"palantir">>, <<"%s">>, <<"%v">>}

RepoNames == {<<"bulldozer">>, <<"policy-bot">>}

\* the two copies of cachingInstallationsService in package githubapp
KeyBuilds == {"installations_caching.go", "dispatcher.go"}

\* the verb applied when no operand is left: %!s(MISSING)
Missing(verb) == IF verb = "%s" THEN <<"%!s(MISSING)">> ELSE <<"%!v(MISSING)">>

\* the operands left over when the format ends: %!(EXTRA string=a, string=b)
RECURSIVE ExtraFrom(_, _)
ExtraFrom(args, n) ==
    IF n > Len(args) THEN <<")">>
    ELSE (IF n = 1 THEN <<"string=">> ELSE <<", ", "string=">>) \o args[n] \o ExtraFrom(args, n + 1)

Extra(args, used) == <<"%!(EXTRA ">> \o ExtraFrom(SubSeq(args, used + 1, Len(args)), 1)

\* fmt.Sprintf(format, args...) for string operands: text is copied, each
\* verb takes the next operand, and operands left over are reported at
\* the end
RECURSIVE SprintfFrom(_, _, _, _)
SprintfFrom(format, args, i, used) ==
    IF i > Len(format) THEN (IF used < Len(args) THEN Extra(args, used) ELSE <<>>)
    ELSE IF format[i] \in Verbs
    THEN IF used < Len(args)
         THEN args[used + 1] \o SprintfFrom(format, args, i + 1, used + 1)
         ELSE Missing(format[i]) \o SprintfFrom(format, args, i + 1, used)
    ELSE <<format[i]>> \o SprintfFrom(format, args, i + 1, used)

Sprintf(format, args) == SprintfFrom(format, args, 1, 0)

\* the key of GetByOwner: the owner
OwnerKey(owner) == owner

\* the key of GetByRepository: fmt.Sprintf("%s/%s", owner, name) in
\* installations_caching.go, fmt.Sprintf(owner, "/", name) in dispatcher.go
RepositoryKey(build, owner, name) ==
    IF build = "dispatcher.go" THEN Sprintf(owner, <<<<"/">>, name>>)
    ELSE Sprintf(<<"%s", "/", "%s">>, <<owner, name>>)

\* what the delegate answers: an Installation (by its ID, which changes
\* when the app is installed again) or an error
InstallIDs == {1, 2}

DelegateErr == "delegate error"

DelegateResults == [err : {NoErr}, id : InstallIDs] \cup {[err |-> DelegateErr, id |-> 0]}

\* the LRU cache: lru.Cache.Get and lru.Cache.Add
CacheHas(c, k) == \E i \in DOMAIN c : c[i].key = k

CacheIndex(c, k) == CHOOSE i \in DOMAIN c : c[i].key = k

CacheWithout(c, i) == SubSeq(c, 1, i - 1) \o SubSeq(c, i + 1, Len(c))

CacheGet(c, k) == Append(CacheWithout(c, CacheIndex(c, k)), c[CacheIndex(c, k)])

CacheAdd(c, e, cap) ==
    IF CacheHas(c, e.key) THEN Append(CacheWithout(c, CacheIndex(c, e.key)), e)
    ELSE IF Len(c) + 1 > cap THEN Append(Tail(c), e)
    ELSE Append(c, e)

\* the call that looks up key: a hit returns the cached Installation, a
\* miss asks the delegate and stores what it returns unless it is an error
Lookup(op, owner, name, key, dres) ==
    IF CacheHas(cache, key)
    THEN /\ cache' = CacheGet(cache, key)
         /\ lastGet' = [op |-> op, owner |-> owner, name |-> name, key |-> key, hit |-> TRUE,
                        delegateCalls |-> 0, install |-> cache[CacheIndex(cache, key)].install,
                        err |-> NoErr, by |-> cache[CacheIndex(cache, key)].by]
    ELSE IF dres.err # NoErr
    THEN /\ cache' = cache
         /\ lastGet' = [op |-> op, owner |-> owner, name |-> name, key |-> key, hit |-> FALSE,
                        delegateCalls |-> 1, install |-> 0, err |-> dres.err,
                        by |-> [op |-> op, owner |-> owner, name |-> name]]
    ELSE /\ cache' = CacheAdd(cache, [key |-> key, install |-> dres.id,
                                      by |-> [op |-> op, owner |-> owner, name |-> name]],
                              capacity)
         /\ lastGet' = [op |-> op, owner |-> owner, name |-> name, key |-> key, hit |-> FALSE,
                        delegateCalls |-> 1, install |-> dres.id, err |-> NoErr,
                        by |-> [op |-> op, owner |-> owner, name |-> name]]

\* a GetByOwner that asks the delegate on every call
GetByOwnerAlwaysDelegates(owner, dres) ==
    /\ capacity > 0
    /\ IF dres.err # NoErr
       THEN /\ cache' = cache
            /\ lastGet' = [op |-> "GetByOwner", owner |-> owner, name |-> <<>>,
                           key |-> OwnerKey(owner), hit |-> CacheHas(cache, OwnerKey(owner)),
                           delegateCalls |-> 1, install |-> 0, err |-> dres.err,
                           by |-> [op |-> "GetByOwner", owner |-> owner, name |-> <<>>]]
       ELSE /\ cache' = CacheAdd(cache, [key |-> OwnerKey(owner), install |-> dres.id,
                                         by |-> [op |-> "GetByOwner", owner |-> owner,
                                                 name |-> <<>>]], capacity)
            /\ lastGet' = [op |-> "GetByOwner", owner |-> owner, name |-> <<>>,
                           key |-> OwnerKey(owner), hit |-> CacheHas(cache, OwnerKey(owner)),
                           delegateCalls |-> 1, install |-> dres.id, err |-> NoErr,
                           by |-> [op |-> "GetByOwner", owner |-> owner, name |-> <<>>]]
    /\ UNCHANGED <<dvars, svars, fvars, cvars, rvars, avars, ovars, keyBuild, capacity>>

\* cachingInstallationsService.GetByOwner
GetByOwner(owner, dres) ==
    /\ capacity > 0
    /\ Lookup("GetByOwner", owner, <<>>, OwnerKey(owner), dres)
    /\ UNCHANGED <<dvars, svars, fvars, cvars, rvars, avars, ovars, keyBuild, capacity>>

\* cachingInstallationsService.GetByRepository
GetByRepository(owner, name, dres) ==
    /\ capacity > 0
    /\ Lookup("GetByRepository", owner, name, RepositoryKey(keyBuild, owner, name), dres)
    /\ UNCHANGED <<dvars, svars, fvars, cvars, rvars, avars, ovars, keyBuild, capacity>>

\* cachingInstallationsService.ListAll: return c.delegate.ListAll(ctx)
ListAll(dres) ==
    /\ capacity > 0
    /\ lastGet' = [op |-> "ListAll", owner |-> <<>>, name |-> <<>>, key |-> <<>>, hit |-> FALSE,
                   delegateCalls |-> 1, install |-> dres.id, err |-> dres.err,
                   by |-> [op |-> "ListAll", owner |-> <<>>, name |-> <<>>]]
    /\ UNCHANGED <<dvars, svars, fvars, cvars, rvars, avars, ovars, keyBuild, capacity, cache>>

\* NewCachingInstallationsService(delegate, capacity) in either build;
\* lru.New fails for a capacity below 1 and there is no service then
InitInstallations ==
    /\ NewScheduler("default", 0, 0, "default")
    /\ NewDispatcherState(<<>>, 1, "nil") /\ NewFrontState("nil")
    /\ NoConfigCalls
    /\ firstServed = NoneServed
    /\ cells = NoCells
    /\ keyBuild \in KeyBuilds
    /\ capacity \in 0..MaxCapacity
    /\ cache = <<>>
    /\ lastGet = NoGet
    /\ NoOptions

NextInstallations ==
    \/ \E owner \in Owners, dres \in DelegateResults : GetByOwner(owner, dres)
    \/ \E owner \in Owners, name \in RepoNames, dres \in DelegateResults :
          GetByRepository(owner, name, dres)
    \/ \E dres \in DelegateResults : ListAll(dres)

SpecInstallations == InitInstallations /\ [][NextInstallations]_vars

\* ------------------------------------------------------------------------
\* Schedulers: options
\* ------------------------------------------------------------------------
\* the callbacks and derivers a caller can pass: nil, or one of two
\* functions of its own
OptionCallbacks == {"nil", "panics", "logs"}

OptionDerivers == {"nil", "withTimeout", "withValues"}

\* the values of SchedulerOption: the closures the three With... functions
\* return, each with the argument it captured
SchedulerOptions ==
    [name : {"WithAsyncErrorCallback"}, arg : OptionCallbacks]
        \cup [name : {"WithContextDeriver"}, arg : OptionDerivers]
        \cup [name : {"WithSchedulingMetrics"}, arg : {"registry"}]

\* an option that stores whatever it was given
WithAsyncErrorCallbackStoresNil(onErr, s) == [s EXCEPT !.onError = onErr]

\* WithAsyncErrorCallback(onError): if onError != nil { s.onError = onError }
WithAsyncErrorCallback(onErr, s) ==
    IF onErr # "nil" THEN [s EXCEPT !.onError = onErr] ELSE s

\* WithContextDeriver(deriver): if deriver != nil { s.deriver = deriver }
WithContextDeriver(d, s) ==
    IF d # "nil" THEN [s EXCEPT !.deriver = d] ELSE s

\* WithSchedulingMetrics(r): registers the two gauges, writes no field
WithSchedulingMetrics(r, s) == s

\* opt(&s.scheduler)
ApplyTo(opt, s) ==
    IF opt.name = "WithAsyncErrorCallback" THEN WithAsyncErrorCallback(opt.arg, s)
    ELSE IF opt.name = "WithContextDeriver" THEN WithContextDeriver(opt.arg, s)
    ELSE WithSchedulingMetrics(opt.arg, s)

\* one iteration of `for _, opt := range opts { opt(&s.scheduler) }`
ApplyOption ==
    /\ applied < Len(opts)
    /\ LET s == ApplyTo(opts[applied + 1], [deriver |-> deriver, onError |-> asyncOnError])
       IN /\ deriver' = s.deriver
          /\ asyncOnError' = s.onError
    /\ applied' = applied + 1
    /\ UNCHANGED <<opts, kind, queueSize, workers, queue, recvq, pc, cur, err, activeWorkers,
                   submitted, lastCall, dequeued, hist, crashed>>
    /\ UNCHANGED <<dvars, fvars, cvars, rvars, avars, ivars>>

\* QueueAsyncScheduler after the loop over opts: the worker goroutines are
\* started, each about to receive from s.queue
StartWorkers ==
    /\ kind = "queue"
    /\ applied = Len(opts)
    /\ pc = [g \in GoroutineIds |-> "none"]
    /\ pc' = [g \in GoroutineIds |-> IF g <= workers THEN "range" ELSE "none"]
    /\ UNCHANGED <<kind, queueSize, workers, asyncOnError, queue, recvq, cur, err, activeWorkers,
                   submitted, lastCall, dequeued, hist, crashed>>
    /\ UNCHANGED <<dvars, fvars, cvars, rvars, avars, ivars, ovars>>

\* the constructor has returned the scheduler
Constructed ==
    /\ applied = Len(opts)
    /\ kind = "queue" => pc # [g \in GoroutineIds |-> "none"]

\* AsyncScheduler(opts...) / QueueAsyncScheduler(queueSize, workers, opts...)
\* at the struct literal: deriver: DefaultContextDeriver, onError:
\* DefaultAsyncErrorCallback, no option applied and no worker started
InitOptions ==
    /\ \E k \in AsyncKinds : \E w \in (IF k = "queue" THEN 1..MaxWorkers ELSE {0}) :
          /\ kind = k
          /\ queueSize = 0
          /\ workers = w
    /\ asyncOnError = "default"
    /\ queue = <<>>
    /\ recvq = <<>>
    /\ pc = [g \in GoroutineIds |-> "none"]
    /\ cur = [g \in GoroutineIds |-> 0]
    /\ err = [g \in GoroutineIds |-> NoErr]
    /\ activeWorkers = 0
    /\ submitted = 0
    /\ lastCall = NoCall
    /\ dequeued = <<>>
    /\ hist = [d \in DispatchIds |-> NoHist]
    /\ crashed = FALSE
    /\ NewDispatcherState(<<>>, 1, "nil")
    /\ NewFrontState("nil")
    /\ NoConfigCalls
    /\ firstServed = NoneServed
    /\ cells = NoCells
    /\ keyBuild = "installations_caching.go"
    /\ capacity = 1
    /\ cache = <<>>
    /\ lastGet = NoGet
    /\ opts \in UNION {[1..n -> SchedulerOptions] : n \in 0..MaxOpts}
    /\ applied = 0
    /\ deriver = "default"

NextOptions ==
    \/ ApplyOption
    \/ StartWorkers

SpecOptions == InitOptions /\ [][NextOptions]_vars

\* The request's context is cancelled (the client went away, or ServeHTTP
\* returned) while its accepted dispatch is queued or being executed.
\* Nothing in the schedulers reads the cancellation.
CancelRequest(d) ==
    /\ d \in 1..submitted
    /\ hist[d].res = NoErr
    /\ hist[d].ended = "no"
    /\ d \notin reqCancelled
    /\ Cardinality(reqCancelled) < MaxCancels
    /\ reqCancelled' = reqCancelled \cup {d}
    /\ UNCHANGED <<dvars, svars, cvars, rvars, avars, ivars, ovars, onResponse, lastRespCalls, resp, lastSet>>

\* is the context that the handler of d was given cancelled?  The context
\* made by the deriver is based on context.Background() and has no cancel;
\* the request's context is cancelled when the request's is.
HandlerCtxCancelled(d) == hist[d].hctx = "request" /\ d \in reqCancelled

NextCancel ==
    \/ NextLive
    \/ \E d \in DispatchIds : CancelRequest(d)

SpecCancel == InitLive /\ [][NextCancel]_vars /\ Fairness

SpecLive == InitLive /\ [][NextLive]_vars /\ Fairness

\* ------------------------------------------------------------------------
\* Properties of the dispatcher (checked under SpecDispatcher)
\* ------------------------------------------------------------------------
\* the last request carried an event type and a signature that is the MAC of
\* its body under the dispatcher's secret
LastValid == served > 0 /\ lastReq.event # "" /\ lastReq.sig = Sign(lastReq.payload, secret)

\* the handlers declaring event type e, by index
Declaring(e) == {i \in 1..Len(handlers) : e \in handlers[i]}

MinOf(S) == CHOOSE x \in S : \A y \in S : x <= y

C3_FirstHandlerWins ==
    /\ (LastValid /\ lastReq.event \in EventTypes /\ Cardinality(Declaring(lastReq.event)) >= 2)
          => lastCalls = <<MinOf(Declaring(lastReq.event))>>
    /\ \A i \in DOMAIN Count :
          Count[i] > 0 => \E e \in handlers[i] : i = MinOf(Declaring(e))

\* C3 witness: two handlers declare pull_request and a validly signed
\* pull_request delivery has been served by the first
C3_Witness ==
    /\ LastValid
    /\ lastReq.event = "pull_request"
    /\ Len(handlers) = 2
    /\ "pull_request" \in handlers[1]
    /\ "pull_request" \in handlers[2]
    /\ Count[1] = 1
    /\ Count[2] = 0

\* ------------------------------------------------------------------------
\* Properties of the schedulers (checked under Spec)
\* ------------------------------------------------------------------------
\* a queue scheduler of capacity 1 with 1 worker whose first Schedule succeeded
OneOne == kind = "queue" /\ queueSize = 1 /\ workers = 1 /\ hist[1].res = NoErr

Held(d) ==
    \/ \E k \in 1..Len(queue) : queue[k] = d
    \/ \E g \in GoroutineIds : cur[g] = d
    \/ hist[d].ended # "no"

\* C5: queueScheduler.Schedule can always be taken by a caller (it does not
\* wait); it returns nil or ErrCapacityExceeded; nil exactly when the dispatch
\* went into the queue or to a waiting worker, ErrCapacityExceeded exactly
\* when at the call no worker was waiting and the buffer held queueSize
\* dispatches.
C5_ScheduleNeverBlocks ==
    kind = "queue" =>
        /\ (~crashed /\ submitted < MaxDispatches) => ENABLED ScheduleQueue
        /\ \A d \in 1..submitted :
              /\ hist[d].res \in {NoErr, ErrCapacityExceeded}
              /\ hist[d].res = NoErr <=> Held(d)
        /\ lastCall.d > 0 =>
              (lastCall.res = ErrCapacityExceeded
                  <=> (lastCall.parked = 0 /\ lastCall.qlen = queueSize))

\* C5 witness: a Schedule call found a full non-empty buffer while a handler
\* was running and returned ErrCapacityExceeded
C5_Witness ==
    /\ kind = "queue"
    /\ queueSize >= 1
    /\ lastCall.res = ErrCapacityExceeded
    /\ lastCall.qlen = queueSize
    /\ lastCall.handling # {}
    /\ ~Held(lastCall.d)

\* the dispatches whose Schedule returned nil, in the order of the calls
RECURSIVE AcceptedUpTo(_)
AcceptedUpTo(n) ==
    IF n = 0 THEN <<>>
    ELSE IF hist[n].res = NoErr THEN Append(AcceptedUpTo(n - 1), n) ELSE AcceptedUpTo(n - 1)

\* C6: the workers of the queue scheduler dequeue dispatches in the order in
\* which their Schedule calls succeeded: the sequence of dequeued dispatches
\* is a prefix of the sequence of accepted ones.
C6_DequeueFIFO ==
    kind = "queue" =>
        /\ Len(dequeued) <= Len(AcceptedUpTo(submitted))
        /\ \A k \in 1..Len(dequeued) : dequeued[k] = AcceptedUpTo(submitted)[k]

\* C6 witness: a dispatch that was queued behind another one while two
\* workers were receiving has been dequeued, after the one ahead of it
C6_Witness ==
    /\ kind = "queue"
    /\ workers = 2
    /\ lastCall.res = NoErr
    /\ lastCall.qlen >= 1
    /\ Len(dequeued) >= 2
    /\ dequeued[Len(dequeued)] = lastCall.d

\* C7: under each of the three schedulers the handler of an accepted
\* dispatch is invoked at most once, at most one goroutine holds the
\* dispatch, a worker dequeues it at most once, and a rejected dispatch is
\* never invoked.
C7_AtMostOnce ==
    \A d \in DispatchIds :
        /\ hist[d].invoked <= 1
        /\ Cardinality({g \in GoroutineIds : cur[g] = d}) <= 1
        /\ Cardinality({k \in 1..Len(dequeued) : dequeued[k] = d}) <= 1
        /\ hist[d].res \in {"none", ErrCapacityExceeded} => hist[d].invoked = 0

\* C7 witness: two workers of the pool are inside Handle at the same time,
\* for two dispatches, while a third dispatch has already been executed
C7_Witness ==
    /\ kind = "queue"
    /\ Cardinality(Handling) = 2
    /\ \E d \in DispatchIds : hist[d].ended = "returned" /\ hist[d].invoked = 1

\* the goroutines of the pool that are receiving or executing
LiveWorkers == {g \in GoroutineIds : pc[g] \in {"range", "parked", "inc", "handling", "deferred"}}

\* C8: under the asynchronous schedulers a handler panic is recovered: it
\* reaches the error callback once, as an error value, and it does not end
\* the goroutine; the pool of the queue scheduler keeps exactly `workers`
\* workers, and nothing but a panic of the error callback itself ends the
\* process.
C8_HandlerPanicRecovered ==
    kind \in AsyncKinds =>
        /\ \A d \in DispatchIds :
              (hist[d].outcome = "panic" /\ hist[d].ended # "no")
                  => (hist[d].cbCalls = 1 /\ hist[d].cbErr = PanicErr)
        /\ \A d \in DispatchIds :
              (hist[d].outcome = "panic" /\ hist[d].ended = "no")
                  => \E g \in LiveWorkers : cur[g] = d /\ err[g] = PanicErr
        /\ (kind = "queue" /\ ~crashed) => Cardinality(LiveWorkers) = workers
        /\ crashed => asyncOnError = "panics"

\* C8 witness: the only worker of an unbuffered pool ran a handler that
\* panicked, the error callback got the panic, and the worker then received
\* and ran the next dispatch
C8_Witness ==
    /\ kind = "queue"
    /\ queueSize = 0
    /\ workers = 1
    /\ hist[1].outcome = "panic"
    /\ hist[1].cbErr = PanicErr
    /\ hist[1].ended = "returned"
    /\ hist[2].res = NoErr
    /\ hist[2].invoked = 1

\* every dispatch whose Schedule returned nil has been executed to the end
AllAcceptedFinished == \A d \in 1..submitted : hist[d].res = NoErr => hist[d].ended = "returned"

\* C9: under both asynchronous schedulers, when every accepted dispatch has
\* finished executing the active-worker count is zero.
C9_ActiveWorkersBackToZero ==
    (kind \in AsyncKinds /\ AllAcceptedFinished) => activeWorkers = 0

\* C9 witness: the async scheduler has finished several dispatches that ran
\* concurrently, one of which ended with an error
C9_Witness ==
    /\ kind = "async"
    /\ submitted >= 2
    /\ AllAcceptedFinished
    /\ \E d \in 1..submitted : hist[d].outcome = "error"
    /\ \E d \in 1..submitted : hist[d].outcome = "panic"

\* C10: every increment of the active-worker count made by safeExecute is
\* followed by exactly one decrement when the execution ends, whatever the
\* handler, the context deriver and the error callback did, a panic of the
\* error callback included.
C10_IncrementAlwaysDecremented ==
    kind \in AsyncKinds =>
        \A d \in DispatchIds : hist[d].ended # "no" => (hist[d].incs = 1 /\ hist[d].decs = 1)

\* ------------------------------------------------------------------------
\* Properties of the dispatcher, continued (checked under SpecDispatcher)
\* ------------------------------------------------------------------------
\* the last request was validly signed and its event type has a handler
LastRouted == LastValid /\ handlerMap[lastReq.event] # 0

\* C11: when the handler of a validly signed, registered event returns a
\* non-nil error, the error callback is invoked exactly once with that
\* error and is the only writer of the response; with the default callback
\* the response is 500 with the fixed internal-server-error message.
C11_HandlerErrorGoesToOnError ==
    (LastRouted /\ lastTrace.hres.err # NoErr) =>
        /\ Len(lastCalls) = 1
        /\ lastErrCalls = 1
        /\ lastTrace.errArg = lastTrace.hres.err
        /\ lastTrace.writers = <<"onError">>
        /\ onError = "default" =>
              lastResp = [status |-> StatusInternalServerError, body |-> InternalErrorBody]
        /\ onError = "custom" => lastResp = [status |-> StatusConflict, body |-> CustomErrorBody]

\* C11 witness: a handler that chose a status and a body and failed, under
\* the default error callback
C11_Witness ==
    /\ LastRouted
    /\ lastTrace.hres = [status |-> 201, respbody |-> "body", err |-> HandlerErr]
    /\ onError = "default"
    /\ lastResp.status = StatusInternalServerError

\* ------------------------------------------------------------------------
\* Properties of the asynchronous schedulers under fair scheduling
\* (checked under SpecLive)
\* ------------------------------------------------------------------------
\* once Schedule has returned for a dispatch, neither its result nor the
\* response written for its delivery changes
ResultAndResponseStay ==
    \A d \in DispatchIds :
        hist[d].res # "none" => (hist'[d].res = hist[d].res /\ resp'[d] = resp[d])

\* C12: under either asynchronous scheduler a handler error never changes
\* the result of Schedule or the HTTP response: Schedule returns nil or the
\* capacity error only, the response is the acknowledgment or the busy
\* answer, and both stay as they are whatever the handler does later; and
\* the error of a handler that returned one is eventually delivered, once,
\* to the AsyncErrorCallback.
C12_HandlerErrorOnlyToCallback ==
    /\ [](\A d \in DispatchIds : hist[d].res \in {"none", NoErr, ErrCapacityExceeded})
    /\ [](\A d \in DispatchIds : hist[d].res = NoErr => resp[d] = [status |-> StatusOK, body |-> NoBody])
    /\ [][ResultAndResponseStay]_vars
    /\ \A d \in DispatchIds :
          (hist[d].outcome = "error") ~> (hist[d].cbCalls = 1 /\ hist[d].cbErr = HandlerErr)

\* C12 witness: a pool worker's handler returned an error, the callback has
\* received it, and Schedule's nil and the acknowledgment are as they were
C12_Witness ==
    /\ kind = "queue"
    /\ \E d \in DispatchIds :
          /\ hist[d].outcome = "error"
          /\ hist[d].cbCalls = 1
          /\ hist[d].cbErr = HandlerErr
          /\ hist[d].res = NoErr
          /\ resp[d].status = StatusOK

C14_UnhandledEvent ==
    (LastValid /\ lastReq.event # PingEvent /\ handlerMap[lastReq.event] = 0) =>
        /\ lastCalls = <<>>
        /\ lastErrCalls = 0
        /\ onResponse = "nil" =>
              /\ lastResp = [status |-> StatusAccepted, body |-> NoBody]
              /\ lastRespCalls = <<>>
        /\ onResponse = "custom" =>
              /\ lastRespCalls = <<[event |-> lastReq.event, handled |-> FALSE]>>
              /\ lastTrace.writers = <<"onResponse">>
              /\ lastResp = CustomResponseCallback(lastReq.event, FALSE)

\* C14 witness: handlers are registered, but none for the event delivered,
\* and the dispatcher has no response callback
C14_Witness ==
    /\ LastValid
    /\ lastReq.event = "issue_comment"
    /\ Len(handlers) = 2
    /\ handlerMap["pull_request"] # 0
    /\ onResponse = "nil"
    /\ lastResp.status = StatusAccepted

\* ------------------------------------------------------------------------
\* Properties of the dispatcher, continued (checked under SpecDispatcher)
\* ------------------------------------------------------------------------
\* C15: a request without event-type header is answered 202 with an empty
\* body by the dispatcher itself, with no Handle call and no callback call,
\* whether or not its signature is valid.
C15_NoEventTypeAccepted ==
    (served > 0 /\ lastReq.event = "") =>
        /\ lastResp = [status |-> StatusAccepted, body |-> NoBody]
        /\ lastCalls = <<>>
        /\ lastErrCalls = 0
        /\ lastRespCalls = <<>>
        /\ lastTrace.writers = <<"dispatcher">>

\* C15 witness: a request without event type whose signature is not the
\* MAC of its body under the dispatcher's secret, sent to a dispatcher that
\* has handlers
C15_Witness ==
    /\ served > 0
    /\ lastReq.event = ""
    /\ lastReq.sig # Sign(lastReq.payload, secret)
    /\ Len(handlers) > 0
    /\ lastResp.status = StatusAccepted

\* C16: every Handle call of the last request was made on a handler with
\* an event type that is among the types that handler's Handles() returns.
C16_HandleOnlyDeclaredEvents ==
    /\ Len(lastTrace.callEvents) = Len(lastCalls)
    /\ \A k \in DOMAIN lastCalls :
          /\ lastCalls[k] \in 1..Len(handlers)
          /\ lastTrace.callEvents[k] \in handlers[lastCalls[k]]
          /\ lastTrace.callEvents[k] = lastReq.event

\* C16 witness: the second handler was called, with an event type that the
\* first handler does not declare
C16_Witness ==
    /\ Len(handlers) = 2
    /\ lastCalls = <<2>>
    /\ lastTrace.callEvents = <<"pull_request">>
    /\ handlers[1] = {"ping"}

\* C17: when the handler of a validly signed, registered event returns no
\* error, it was invoked exactly once, no error callback ran, and the
\* dispatcher wrote the status and body the handler returned, 200 standing
\* in for a zero status and nothing written for an empty body.
C17_HandlerResultWritten ==
    (LastRouted /\ lastTrace.hres.err = NoErr) =>
        /\ Len(lastCalls) = 1
        /\ lastErrCalls = 0
        /\ lastTrace.writers = <<"dispatcher">>
        /\ lastResp.status = (IF lastTrace.hres.status = 0 THEN StatusOK ELSE lastTrace.hres.status)
        /\ lastResp.body = lastTrace.hres.respbody

\* C17 witness: the second request served reached a handler that chose 201
\* and a body
C17_Witness ==
    /\ LastRouted
    /\ served = 2
    /\ lastTrace.hres = [status |-> 201, respbody |-> "body", err |-> NoErr]
    /\ lastResp = [status |-> 201, body |-> "body"]

\* ------------------------------------------------------------------------
\* Properties of the dispatcher with a response callback, continued
\* (checked under SpecFront)
\* ------------------------------------------------------------------------
\* C18: with a response callback configured, when the handler of a validly
\* signed, registered event ran without error, the handler was invoked
\* exactly once, the response callback exactly once with the event type and
\* handled = true, no error callback ran, and the response is what the
\* response callback wrote, not what the handler returned.
C18_ResponseCallbackHandled ==
    (onResponse = "custom" /\ LastRouted /\ lastTrace.hres.err = NoErr) =>
        /\ Len(lastCalls) = 1
        /\ lastErrCalls = 0
        /\ lastRespCalls = <<[event |-> lastReq.event, handled |-> TRUE]>>
        /\ lastTrace.writers = <<"onResponse">>
        /\ lastResp = [status |-> StatusCreated, body |-> CreatedBody(lastReq.event)]

\* C18 witness: the callback answered 201 for a pull_request whose handler
\* had returned 200 and a body of its own
C18_Witness ==
    /\ onResponse = "custom"
    /\ LastRouted
    /\ lastReq.event = "pull_request"
    /\ lastTrace.hres = [status |-> 200, respbody |-> "body", err |-> NoErr]
    /\ lastResp = [status |-> 201, body |-> "Created an entry for the pull_request event!\n"]

\* ------------------------------------------------------------------------
\* Properties of the schedulers, continued (checked under Spec)
\* ------------------------------------------------------------------------
\* the step that writes the response of a delivery finds its handler not
\* yet invoked
RespondsBeforeHandler ==
    \A d \in DispatchIds :
        (resp[d] = NoResponse /\ resp'[d] # NoResponse) =>
            (hist'[d].invoked = 0 /\ hist'[d].outcome = "none")

\* once written, the response of a delivery stays as it is
ResponseStays == \A d \in DispatchIds : resp[d] # NoResponse => resp'[d] = resp[d]

\* C19: with an asynchronous scheduler the response of a delivery is
\* written in the step in which Schedule returns, before its handler has
\* been invoked; it is the acknowledgment for an accepted dispatch (the
\* busy answer for a rejected one) and nothing the handler does later
\* changes it.
C19_ResponseDoesNotWaitForHandler ==
    /\ [](kind \in AsyncKinds =>
            \A d \in DispatchIds :
                /\ (hist[d].res # "none") <=> (resp[d] # NoResponse)
                /\ hist[d].res = NoErr => resp[d] = [status |-> StatusOK, body |-> NoBody])
    /\ [][(kind \in AsyncKinds) => (RespondsBeforeHandler /\ ResponseStays)]_vars

\* C19 witness: the responses of two deliveries have been sent while the
\* handler of the first is running and that of the second has not started
C19_Witness ==
    /\ kind = "queue"
    /\ 1 \in Handling
    /\ hist[1].outcome = "none"
    /\ resp[1] = [status |-> StatusOK, body |-> NoBody]
    /\ queue = <<2>>
    /\ hist[2].invoked = 0
    /\ resp[2] = [status |-> StatusOK, body |-> NoBody]

\* C20: when Schedule of the synchronous scheduler has returned (or
\* panicked) for a dispatch, the handler has run once, inline, with the
\* context of the request; Schedule returned exactly the handler's error,
\* or did not return because the handler's panic left it unrecovered; the
\* AsyncErrorCallback was not called and the active-worker count was not
\* touched.
C20_DefaultSchedulerInline ==
    kind = "default" =>
        /\ activeWorkers = 0
        /\ \A g \in GoroutineIds : pc[g] = "none"
        /\ \A d \in 1..submitted :
              /\ hist[d].invoked = 1
              /\ hist[d].hctx = "request"
              /\ hist[d].outcome = "nil" => (hist[d].res = NoErr /\ hist[d].ended = "returned")
              /\ hist[d].outcome = "error" => (hist[d].res = HandlerErr /\ hist[d].ended = "returned")
              /\ hist[d].outcome = "panic" =>
                    (hist[d].res = PanicPropagated /\ hist[d].ended = "panicked")
              /\ hist[d].outcome \in HandleOutcomes
              /\ hist[d].cbCalls = 0
              /\ hist[d].incs = 0
              /\ hist[d].decs = 0

\* C20 witness: the synchronous scheduler has run three dispatches, one that
\* returned nil, one that returned an error and one that panicked
C20_Witness ==
    /\ kind = "default"
    /\ submitted = 3
    /\ \E d \in 1..submitted : hist[d].res = NoErr
    /\ \E d \in 1..submitted : hist[d].res = HandlerErr
    /\ \E d \in 1..submitted : hist[d].res = PanicPropagated

\* ------------------------------------------------------------------------
\* Properties of the asynchronous schedulers under cancellation of request
\* contexts (checked under SpecCancel)
\* ------------------------------------------------------------------------
\* C21: the context an asynchronous scheduler gives to the handler is the
\* derived one and is never cancelled, also when the request's context has
\* been cancelled before or during the execution; and a dispatch whose
\* request context was cancelled is still executed to the end.
C21_CancellationDoesNotReachHandler ==
    /\ [](\A d \in DispatchIds :
             hist[d].invoked = 1 => (hist[d].hctx = "derived" /\ ~HandlerCtxCancelled(d)))
    /\ \A d \in DispatchIds : (d \in reqCancelled) ~> (hist[d].ended = "returned")

\* C21 witness: the request context of a dispatch was cancelled while the
\* dispatch was still queued; its handler ran afterwards and returned nil
C21_Witness ==
    /\ kind = "queue"
    /\ 2 \in reqCancelled
    /\ dequeued = <<1, 2>>
    /\ hist[2].invoked = 1
    /\ hist[2].outcome = "nil"
    /\ hist[2].ended = "returned"
    /\ hist[2].cbCalls = 0

\* ------------------------------------------------------------------------
\* Properties of the schedulers, continued (checked under Spec)
\* ------------------------------------------------------------------------
\* C22: Schedule of the async scheduler can be called in every state of a
\* live process, whatever is running, and has returned nil for every
\* submission made; each accepted dispatch has a goroutine of its own, and
\* every running handler is counted in the active-worker count.
C22_AsyncAlwaysAccepts ==
    kind = "async" =>
        /\ (~crashed /\ submitted < MaxDispatches) => ENABLED ScheduleAsync
        /\ \A d \in 1..submitted : hist[d].res = NoErr
        /\ \A d \in 1..submitted : pc[d] # "none" /\ (pc[d] # "exit" => cur[d] = d)
        /\ Cardinality(Handling) <= activeWorkers

\* C22 witness: every submission the bound allows has been made and all
\* their handlers are executing at once
C22_Witness ==
    /\ kind = "async"
    /\ submitted = MaxDispatches
    /\ Handling = DispatchIds
    /\ activeWorkers = MaxDispatches

\* C23: for the queue scheduler built with capacity queueSize and `workers`
\* workers, the active-worker count and the number of handlers running are
\* between 0 and workers, and the number of dispatches in the buffer is
\* between 0 and queueSize.
C23_QueueAndWorkersBounded ==
    kind = "queue" =>
        /\ activeWorkers \in 0..workers
        /\ Cardinality(Handling) <= workers
        /\ Len(queue) \in 0..queueSize

\* C23 witness: both bounds are met at once: two workers are executing and
\* the buffer of capacity one is full
C23_Witness ==
    /\ kind = "queue"
    /\ workers = 2
    /\ queueSize = 1
    /\ activeWorkers = 2
    /\ Cardinality(Handling) = 2
    /\ Len(queue) = 1

\* ------------------------------------------------------------------------
\* Properties of the construction of the queue scheduler (checked under
\* SpecConstruct)
\* ------------------------------------------------------------------------
\* C24: QueueAsyncScheduler called with a negative queue size or with fewer
\* than one worker panics: no worker is started and no Schedule call is
\* ever served.  Called with valid arguments it starts the goroutines
\* 1..workers, and as long as the process lives these, and only these, are
\* the workers, whatever the handlers return or panic with.
C24_ConstructionChecked ==
    IF queueSize < 0 \/ workers < 1
    THEN crashed /\ LiveWorkers = {} /\ submitted = 0 /\ (\A g \in GoroutineIds : pc[g] = "none")
    ELSE ~crashed => (LiveWorkers = 1..workers /\ Cardinality(LiveWorkers) = workers)

\* C24 witness: a pool of two workers is complete after one of its workers
\* ran a handler that panicked and the other one that returned an error
C24_Witness ==
    /\ workers = 2
    /\ queueSize >= 0
    /\ ~crashed
    /\ LiveWorkers = {1, 2}
    /\ \E d \in DispatchIds : hist[d].outcome = "panic" /\ hist[d].ended = "returned"
    /\ \E d \in DispatchIds : hist[d].outcome = "error" /\ hist[d].ended = "returned"

\* ------------------------------------------------------------------------
\* Properties of the scheduling metrics (checked under Spec)
\* ------------------------------------------------------------------------
\* the Schedule calls that returned ErrCapacityExceeded
Rejected == {d \in 1..submitted : hist[d].res = ErrCapacityExceeded}

\* the accepted dispatches that no worker has dequeued yet
AcceptedNotDequeued ==
    {d \in 1..submitted : hist[d].res = NoErr /\ \A k \in DOMAIN dequeued : dequeued[k] # d}

\* the goroutines between the increment at the entry of safeExecute and
\* the end of its deferred function
Executing == {g \in GoroutineIds : pc[g] \in {"handling", "deferred"}}

\* C25: with scheduling metrics enabled on the queue scheduler, the queue
\* gauge equals the number of accepted dispatches not yet dequeued, the
\* workers gauge equals the number of dispatches being executed (in a live
\* process), and the dropped-events counter equals the number of Schedule
\* calls that returned ErrCapacityExceeded.
C25_MetricsFollowScheduler ==
    kind = "queue" =>
        /\ QueueGauge = Cardinality(AcceptedNotDequeued)
        /\ ~crashed => WorkersGauge = Cardinality(Executing)
        /\ DroppedCounter = Cardinality(Rejected)

\* ------------------------------------------------------------------------
\* Properties of the responder (checked under SpecResponder)
\* ------------------------------------------------------------------------
\* C26: with the synchronous scheduler and no response callback, when the
\* handler of a routed delivery set a responder and returned nil, the call
\* of SetResponder did not panic and the response is exactly what the
\* responder writes, whatever status and body the handler returned; a call
\* of SetResponder on a context without responder cell panics and stores
\* nothing.
C26_ResponderReplacesResponse ==
    /\ (onResponse = "nil" /\ LastRouted /\ lastSet.ctx = "dispatcher"
           /\ lastTrace.hres.err = NoErr) =>
          /\ ~lastSet.panicked
          /\ lastSet.cell = "teapot"
          /\ Len(lastCalls) = 1
          /\ lastErrCalls = 0
          /\ lastTrace.writers = <<"responder">>
          /\ lastResp = [status |-> StatusTeapot, body |-> TeapotBody]
    /\ lastSet.ctx = "background" => (lastSet.panicked /\ lastSet.cell = "absent")

\* C26 witness: the handler of a pull_request returned 201 and a body of
\* its own after setting the responder, and the response is the teapot's
C26_Witness ==
    /\ onResponse = "nil"
    /\ LastRouted
    /\ lastReq.event = "pull_request"
    /\ lastSet = [ctx |-> "dispatcher", panicked |-> FALSE, cell |-> "teapot"]
    /\ lastTrace.hres = [status |-> 201, respbody |-> "body", err |-> NoErr]
    /\ lastResp = [status |-> 418, body |-> "I'm a teapot!\n"]

\* ------------------------------------------------------------------------
\* Properties of package appconfig (checked under SpecConfig)
\* ------------------------------------------------------------------------
\* the input does not encode a remote reference: it is no mapping, or has
\* an unknown field, or has no remote field
NotARemoteRef(b) == b.kind # "map" \/ b.extra \/ b.remote = Absent

\* C27: YAMLRemoteRefParser returns (nil, nil) for every input that does
\* not encode a remote reference, and returns an error, with a nil
\* reference, only for a mapping whose remote field is present but empty.
C27_NotARemoteRefIsNilNil ==
    parseOut.called =>
        /\ NotARemoteRef(yamlInput) => (parseOut.ref = NilRef /\ parseOut.err = NoErr)
        /\ parseOut.err # NoErr =>
              (parseOut.ref = NilRef /\ yamlInput.kind = "map" /\ yamlInput.remote = "")

\* C28: for a mapping with a non-empty remote field and no unknown field,
\* YAMLRemoteRefParser returns a non-nil reference and a nil error; the
\* reference has the fields of the input, "" for an absent path or ref.
C28_RemoteRefCopied ==
    (parseOut.called /\ yamlInput.kind = "map" /\ ~yamlInput.extra
        /\ yamlInput.remote \notin {Absent, ""}) =>
        /\ parseOut.err = NoErr
        /\ parseOut.ref = [nil |-> FALSE, Remote |-> yamlInput.remote,
                           Path |-> IF yamlInput.path = Absent THEN "" ELSE yamlInput.path,
                           Ref |-> IF yamlInput.ref = Absent THEN "" ELSE yamlInput.ref]

\* the first position in the list of paths at which the repository has a
\* file, 0 when it has none
FirstExisting(in) ==
    LET found == {i \in DOMAIN in.paths : in.files[in.paths[i]] # "missing"}
    IN  IF found = {} THEN 0 ELSE CHOOSE i \in found : \A j \in found : i <= j

\* the configuration found by the order of the documentation
ExpectedConfig(in) ==
    LET i == FirstExisting(in) IN
    IF i # 0
    THEN IF in.files[in.paths[i]] = "remote"
         THEN [Source |-> "remote/config", Path |-> "config/test-app.yml", IsRemote |-> TRUE]
         ELSE [Source |-> "test/repo", Path |-> in.paths[i], IsRemote |-> FALSE]
    ELSE IF in.defaults = "remote"
         THEN [Source |-> "remote/config", Path |-> "config/test-app.yml", IsRemote |-> TRUE]
    ELSE IF in.defaults = "local"
         THEN [Source |-> "test/.github", Path |-> "test-app.yml", IsRemote |-> FALSE]
    ELSE UndefinedConfig

\* C29: LoadConfig returns, with a nil error, the configuration of the
\* first listed path that exists in the repository (of the remote file when
\* it is a remote reference, with IsRemote set), the owner's default only
\* when no listed path exists, and the zero Config when neither exists.
C29_LoadConfigInOrder ==
    loadOut.called =>
        /\ ~loadOut.panicked
        /\ loadOut.err = NoErr
        /\ loadOut.cfg = ExpectedConfig(loadInput)

\* ------------------------------------------------------------------------
\* Properties of safeExecute, continued (checked under Spec)
\* ------------------------------------------------------------------------
\* C30: in the asynchronous schedulers the AsyncErrorCallback is never
\* called more than once for a dispatch and never for one whose handler
\* returned nil; once the execution of a dispatch whose handler returned an
\* error or panicked has ended, the callback has been called exactly once
\* for it, with the context made by the deriver and with the handler's
\* error (the recovered panic for a handler that panicked).
C30_CallbackOncePerFailure ==
    kind \in AsyncKinds =>
        \A d \in 1..submitted :
            /\ hist[d].cbCalls <= 1
            /\ hist[d].outcome = "nil" => hist[d].cbCalls = 0
            /\ (hist[d].outcome \in {"error", "panic"} /\ hist[d].ended # "no") =>
                  /\ hist[d].cbCalls = 1
                  /\ hist[d].cbCtx = "derived"
                  /\ hist[d].cbErr = OutcomeErr(hist[d].outcome)

\* C30 witness: of three executions that ended, the one whose handler
\* returned nil made no call, the two whose handlers returned an error and
\* panicked made one call each, with the derived context
C30_Witness ==
    /\ kind \in AsyncKinds
    /\ submitted = 3
    /\ \E a, b, c \in 1..submitted :
          /\ hist[a].outcome = "nil" /\ hist[a].ended = "returned" /\ hist[a].cbCalls = 0
          /\ hist[b].outcome = "error" /\ hist[b].ended = "returned" /\ hist[b].cbCalls = 1
          /\ hist[b].cbErr = HandlerErr /\ hist[b].cbCtx = "derived"
          /\ hist[c].outcome = "panic" /\ hist[c].ended = "returned" /\ hist[c].cbCalls = 1
          /\ hist[c].cbErr = PanicErr /\ hist[c].cbCtx = "derived"

\* ------------------------------------------------------------------------
\* Properties of the queue scheduler, continued (checked under Spec)
\* ------------------------------------------------------------------------
\* the dispatch was rejected and has left no trace in the scheduler
RejectedLeftNoTrace(d) ==
    /\ hist[d].invoked = 0
    /\ hist[d].incs = 0
    /\ hist[d].cbCalls = 0
    /\ hist[d].outcome = "none"
    /\ hist[d].ended = "no"
    /\ \A k \in DOMAIN queue : queue[k] # d
    /\ \A k \in DOMAIN dequeued : dequeued[k] # d
    /\ \A g \in GoroutineIds : cur[g] # d

\* C31: a Schedule call of the queue scheduler that returns
\* ErrCapacityExceeded changes neither the buffer, nor the workers and what
\* they hold, nor the count of active workers; and a rejected dispatch is
\* never buffered, dequeued, executed or reported to the AsyncErrorCallback
\* at any later time.
C31_RejectedLeavesNoTrace ==
    [][/\ (kind = "queue" /\ submitted' = submitted + 1
              /\ hist'[submitted'].res = ErrCapacityExceeded) =>
                 /\ queue' = queue
                 /\ activeWorkers' = activeWorkers
                 /\ recvq' = recvq /\ pc' = pc /\ cur' = cur /\ err' = err
                 /\ dequeued' = dequeued
       /\ \A d \in 1..submitted' :
             (kind = "queue" /\ hist'[d].res = ErrCapacityExceeded) => RejectedLeftNoTrace(d)']_vars

\* C31 witness: the second of three dispatches was rejected while the first
\* one filled the buffer; the first and the third have been executed since
\* and the rejected one has not
C31_Witness ==
    /\ kind = "queue"
    /\ submitted = 3
    /\ hist[1].res = NoErr /\ hist[1].ended = "returned"
    /\ hist[2].res = ErrCapacityExceeded /\ RejectedLeftNoTrace(2)
    /\ hist[3].res = NoErr /\ hist[3].ended = "returned"
    /\ dequeued = <<1, 3>>

\* the dispatches the scheduler holds: buffered, or in the hands of a worker
HeldCount == Len(queue) + Cardinality({g \in GoroutineIds : cur[g] # 0})

\* a worker has received a dispatch and not yet entered safeExecute
InHandOff == \E g \in GoroutineIds : pc[g] = "inc"

\* C32: the queue scheduler never holds more than queueSize + workers
\* dispatches; a Schedule call made while it holds fewer than queueSize and
\* none is in hand-off is accepted; with queueSize = 0 a Schedule call is
\* accepted if a worker is parked on the channel at that moment and
\* rejected with ErrCapacityExceeded otherwise.
C32_CapacityIsQueuePlusWorkers ==
    [][kind = "queue" =>
          /\ HeldCount' <= queueSize + workers
          /\ (submitted' = submitted + 1) =>
                /\ (HeldCount < queueSize /\ ~InHandOff) => hist'[submitted'].res = NoErr
                /\ queueSize = 0 =>
                      hist'[submitted'].res = (IF recvq # <<>> THEN NoErr
                                               ELSE ErrCapacityExceeded)]_vars

\* C32 witness: without buffer and with one worker, the first dispatch was
\* handed to the parked worker and the second one, sent while the worker
\* was executing the first, was rejected
C32_Witness ==
    /\ kind = "queue"
    /\ queueSize = 0
    /\ workers = 1
    /\ hist[1].res = NoErr
    /\ lastCall = [d |-> 2, res |-> ErrCapacityExceeded, qlen |-> 0, parked |-> 0,
                   handling |-> {1}]
    /\ HeldCount = queueSize + workers

\* ------------------------------------------------------------------------
\* Properties of the dispatcher, continued (checked under SpecDispatcher)
\* ------------------------------------------------------------------------
\* C33: when the handler of a routed delivery returns an error together
\* with a status other than 0 or with a body, nothing of that status and
\* body is written: the error callback is the only writer and the response
\* is what it writes for this dispatcher, the same as for a handler that
\* returns the error alone.
C33_StatusAndBodyDroppedOnError ==
    (LastRouted /\ lastTrace.hres.err # NoErr
        /\ (lastTrace.hres.status # 0 \/ lastTrace.hres.respbody # NoBody)) =>
        /\ lastErrCalls = 1
        /\ lastTrace.writers = <<"onError">>
        /\ lastResp = [status |-> CallOnError(onError).status, body |-> CallOnError(onError).body]
        /\ lastResp.status # lastTrace.hres.status
        /\ lastResp.body # lastTrace.hres.respbody

\* C33 witness: the handler returned 200, a body and an error, and the
\* response is the one of the custom error callback
C33_Witness ==
    /\ LastRouted
    /\ onError = "custom"
    /\ lastTrace.hres = [status |-> 200, respbody |-> "body", err |-> HandlerErr]
    /\ lastResp = [status |-> CustomErrorHandler.status, body |-> CustomErrorHandler.body]
    /\ lastTrace.writers = <<"onError">>

\* ------------------------------------------------------------------------
\* Properties of a dispatcher over several deliveries (checked under
\* SpecReplay)
\* ------------------------------------------------------------------------
IsValid(req) == req.sig = Sign(req.payload, secret)

\* the last delivery has the inputs of the first one: the event type,
\* whether the signature is valid, and what the handler returns
SameInputsAsFirst ==
    /\ served >= 2
    /\ firstServed.req.event = lastReq.event
    /\ IsValid(firstServed.req) = IsValid(lastReq)
    /\ firstServed.hres = lastTrace.hres

C35_AsyncResponderWithoutEffect ==
    kind \in AsyncKinds =>
        \A d \in 1..submitted :
            /\ cells[d].called =>
                  /\ ~cells[d].panicked
                  /\ cells[d].ctx = "teapot"
                  /\ cells[d].req = "nil"
            /\ resp[d] # NoResponse => resp[d] = FrontAfterSchedule(hist[d].res)

\* C35 witness: the handler of the first delivery set its responder before
\* the response was written, and the response is 200 with no body
C35_Witness ==
    /\ kind \in AsyncKinds
    /\ cells[1] = [req |-> "nil", ctx |-> "teapot", called |-> TRUE, panicked |-> FALSE,
                   early |-> TRUE]
    /\ hist[1].ended = "returned"
    /\ resp[1] = [status |-> StatusOK, body |-> NoBody]

\* ------------------------------------------------------------------------
\* Properties of the caching installations service (checked under
\* SpecInstallations)
\* ------------------------------------------------------------------------
\* C36: GetByOwner(o) with an entry for o in the cache returns the cached
\* Installation and does not call the delegate; without one it calls the
\* delegate once, and returns and stores its Installation, or returns its
\* error and leaves the cache as it was.  No call changes the Installation
\* of an entry that stays in the cache.  ListAll calls the delegate once
\* and leaves the cache as it was.
C36_GetByOwnerCached ==
    [][/\ lastGet'.op = "GetByOwner" =>
             IF CacheHas(cache, lastGet'.owner)
             THEN /\ lastGet'.hit /\ lastGet'.delegateCalls = 0 /\ lastGet'.err = NoErr
                  /\ lastGet'.install = cache[CacheIndex(cache, lastGet'.owner)].install
                  /\ Len(cache') = Len(cache)
             ELSE /\ ~lastGet'.hit /\ lastGet'.delegateCalls = 1
                  /\ lastGet'.err # NoErr => (cache' = cache /\ lastGet'.install = 0)
                  /\ lastGet'.err = NoErr =>
                        /\ CacheHas(cache', lastGet'.owner)
                        /\ cache'[CacheIndex(cache', lastGet'.owner)].install = lastGet'.install
       /\ \A i \in DOMAIN cache, j \in DOMAIN cache' :
             cache[i].key = cache'[j].key => cache[i].install = cache'[j].install
       /\ lastGet'.op = "ListAll" => (lastGet'.delegateCalls = 1 /\ cache' = cache)]_vars

\* C36 witness: a second GetByOwner of the same owner was answered from
\* the cache with the Installation stored by the first
C36_Witness ==
    /\ lastGet.op = "GetByOwner"
    /\ lastGet.owner = <<"palantir">>
    /\ lastGet.hit
    /\ lastGet.delegateCalls = 0
    /\ lastGet.install = 2
    /\ lastGet.by = [op |-> "GetByOwner", owner |-> <<"palantir">>, name |-> <<>>]
    /\ Len(cache) = 2

\* C37: an Installation that GetByRepository(owner, name) returns from the
\* cache was stored by a GetByRepository call with the same owner and the
\* same name.
C37_RepositoryKeysDistinct ==
    (lastGet.op = "GetByRepository" /\ lastGet.hit) =>
        lastGet.by = [op |-> "GetByRepository", owner |-> lastGet.owner, name |-> lastGet.name]

\* the argument of the last option named n whose argument is not nil, and
\* def when there is none
LastNonNil(n, def) ==
    LET given == {i \in DOMAIN opts : opts[i].name = n /\ opts[i].arg # "nil"}
    IN IF given = {} THEN def
       ELSE opts[CHOOSE i \in given : \A j \in given : j <= i].arg

\* C38: a constructed asynchronous scheduler uses, as error callback and as
\* context deriver, the last non-nil value given with WithAsyncErrorCallback
\* and WithContextDeriver respectively, and the default
\* (DefaultAsyncErrorCallback, DefaultContextDeriver) when no such option
\* was given or every one was given nil.
C38_OptionsLastNonNilWins ==
    Constructed =>
        /\ asyncOnError = LastNonNil("WithAsyncErrorCallback", "default")
        /\ deriver = LastNonNil("WithContextDeriver", "default")

\* C38 witness: a queue scheduler was constructed with two callbacks and
\* then WithAsyncErrorCallback(nil); it uses the second callback and the
\* default deriver
C38_Witness ==
    /\ Constructed
    /\ kind = "queue"
    /\ opts = <<[name |-> "WithAsyncErrorCallback", arg |-> "panics"],
                [name |-> "WithAsyncErrorCallback", arg |-> "logs"],
                [name |-> "WithAsyncErrorCallback", arg |-> "nil"]>>
    /\ asyncOnError = "logs"
    /\ deriver = "default"

====
